---- MODULE Spec2Model ----
(***************************************************************************)
(* A model of rlox: the single-pass compiler (src/src/compiler.rs), the    *)
(* bytecode VM (src/src/vm.rs), the intern / globals table                 *)
(* (src/src/hash_map.rs), the hasher and the raw string memory             *)
(* (src/src/memory.rs).                                                    *)
(*                                                                         *)
(* Source text is represented after scanning, as a sequence of tokens that *)
(* carry their lexeme (an ASCII byte sequence).  Rust panics (unwrap of    *)
(* None, index out of bounds, explicit panic!) end the process: the model  *)
(* records them as the mode "panic".                                       *)
(***************************************************************************)
EXTENDS Integers, Sequences, FiniteSets, TLC

\* ------------------------------------------------------------------------
\* Program constants
\* ------------------------------------------------------------------------
STACK_MAX == 512
FRAMES_MAX == 512
TABLE_INIT_CAPACITY == 10
LOAD_FACTOR == 70
LOCALS_MAX == 255
\* size_of::<String>() on a 64-bit target: what memory::allocate::<String>() allocates
STRING_ALLOC_SIZE == 24

\* ------------------------------------------------------------------------
\* hasher.rs: 32-bit FNV-1a
\* ------------------------------------------------------------------------
\* A u32 is kept as the pair <<high 16 bits, low 16 bits>>.
FNV_OFFSET == <<33052, 40389>>  \* 2166136261 = 0x811C9DC5
FNV_PRIME == <<256, 403>>       \* 16777619   = 0x01000193

RECURSIVE BitXor(_, _)
BitXor(a, b) ==
  IF a = 0 THEN b
  ELSE IF b = 0 THEN a
  ELSE (((a % 2) + (b % 2)) % 2) + 2 * BitXor(a \div 2, b \div 2)

\* hash ^= byte
XorByte(h, byte) == <<h[1], BitXor(h[2], byte)>>

\* hash.wrapping_mul(16777619)
WrappingMulPrime(h) ==
  LET low == h[2] * FNV_PRIME[2]
  IN <<(h[1] * FNV_PRIME[2] + h[2] * FNV_PRIME[1] + (low \div 65536)) % 65536,
       low % 65536>>

RECURSIVE HashFrom(_, _, _)
\* the loop of hash from byte i on (the test h[1] >= 0 is always true: it makes
\* the evaluation compute h before going on)
HashFrom(h, bytes, i) ==
  IF i > Len(bytes) \/ h[1] < 0 THEN h
  ELSE HashFrom(WrappingMulPrime(XorByte(h, bytes[i])), bytes, i + 1)

hash(bytes) == HashFrom(FNV_OFFSET, bytes, 1)

\* hash % capacity for a u32 kept as a pair
HashMod(h, capacity) ==
  (((h[1] % capacity) * (65536 % capacity)) + h[2]) % capacity

\* ------------------------------------------------------------------------
\* common.rs: values and objects
\* ------------------------------------------------------------------------
FatPointer(p, s, h) == [ptr |-> p, size |-> s, hash |-> h]

VBoolean(b) == [tag |-> "Boolean", b |-> b]
\* an f64 is kept as the fraction n / d in lowest terms with d >= 0; d = 0 stands
\* for the infinities (n = 1, -1) and NaN (n = 0)
RECURSIVE GCD(_, _)
GCD(a, b) == IF b = 0 THEN a ELSE GCD(b, a % b)

VFraction(n, d) ==
  LET s == IF d < 0 THEN -1 ELSE 1
      g == GCD(IF n < 0 THEN -n ELSE n, s * d)
  IN IF g = 0 THEN [tag |-> "Number", n |-> 0, d |-> 0]
     ELSE [tag |-> "Number", n |-> (s * n) \div g, d |-> (s * d) \div g]

VNumber(n) == VFraction(n, 1)
VMissing == [tag |-> "Missing"]
VObj(o) == [tag |-> "Obj", obj |-> o]
ObjStr(fp) == [otype |-> "Str", fp |-> fp]
ObjFun(f) == [otype |-> "Fun", fun |-> f]
ObjClosure(o) == [otype |-> "Closure", inner |-> o]

is_number(v) == v.tag = "Number"
is_obj(v) == v.tag = "Obj"
is_obj_string(v) == v.tag = "Obj" /\ v.obj.otype = "Str"

\* impl PartialEq for Obj: only two strings can be equal (derived FatPointer equality)
ObjEq(l, r) ==
  IF l.otype = "Str" /\ r.otype = "Str" THEN l.fp = r.fp ELSE FALSE

\* impl PartialEq for Value
ValueEq(l, r) ==
  CASE l.tag = "Boolean" /\ r.tag = "Boolean" -> l.b = r.b
    [] l.tag = "Number" /\ r.tag = "Number" ->
         l.n = r.n /\ l.d = r.d /\ ~(l.n = 0 /\ l.d = 0)
    [] l.tag = "Missing" /\ r.tag = "Missing" -> TRUE
    [] l.tag = "Obj" /\ r.tag = "Obj" -> ObjEq(l.obj, r.obj)
    [] OTHER -> FALSE

\* ------------------------------------------------------------------------
\* hash_map.rs: Table
\* ------------------------------------------------------------------------
Vacant == [kind |-> "Vacant"]
TombStone == [kind |-> "TombStone"]
Occupied(k, v) == [kind |-> "Occupied", key |-> k, value |-> v]

TableInit(capacity) ==
  [entries |-> [i \in 0..(capacity - 1) |-> Vacant],
   capacity |-> capacity, size |-> 0]

is_occupied(bucket, key, entries) ==
  entries[bucket].kind = "Occupied" /\ entries[bucket].key.ptr # key.ptr

RECURSIVE ProbeBucket(_, _, _, _)
ProbeBucket(bucket, key, entries, capacity) ==
  IF is_occupied(bucket, key, entries)
  THEN ProbeBucket((bucket + 1) % capacity, key, entries, capacity)
  ELSE bucket

find_bucket(key, entries, capacity) ==
  ProbeBucket(HashMod(key.hash, capacity), key, entries, capacity)

RECURSIVE Rehash(_, _, _, _)
\* the loop of ensure_capacity: r = [entries, size] of the new table
Rehash(old, i, r, capacity) ==
  IF i \notin DOMAIN old THEN r
  ELSE IF old[i].kind = "Occupied"
       THEN LET bucket == find_bucket(old[i].key, r.entries, capacity)
            IN Rehash(old, i + 1,
                      [entries |-> [r.entries EXCEPT ![bucket] = old[i]],
                       size |-> r.size + 1], capacity)
       ELSE Rehash(old, i + 1, r, capacity)

\* a faulty ensure_capacity that never grows the table (C37 must notice it)
ensure_capacity_never(t) == t

ensure_capacity(t) ==
  IF ((t.size + 1) \div t.capacity) * 100 > LOAD_FACTOR
  THEN LET cap == t.capacity * 2 + 1
           r == Rehash(t.entries, 0,
                       [entries |-> [i \in 0..(cap - 1) |-> Vacant], size |-> 0], cap)
       IN [entries |-> r.entries, capacity |-> cap, size |-> r.size]
  ELSE t

\* Table::insert: the table afterwards
insert(t, key, value) ==
  LET t1 == ensure_capacity(t)
      bucket == find_bucket(key, t1.entries, t1.capacity)
  IN [t1 EXCEPT !.entries[bucket] = Occupied(key, value), !.size = t1.size + 1]

\* a faulty insert that reports every key as present before (C1 must notice it)
insert_result_always_present(t, key) == TRUE

\* Table::insert: its return value (new_value: the bucket was Occupied before)
insert_result(t, key) ==
  LET t1 == ensure_capacity(t)
      bucket == find_bucket(key, t1.entries, t1.capacity)
  IN t1.entries[bucket].kind = "Occupied"

\* Table::delete with insert_tombstone and get_at_index
delete(t, key) ==
  LET bucket == find_bucket(key, t.entries, t.capacity)
  IN IF t.entries[bucket].kind = "Occupied"
     THEN [t EXCEPT !.entries[bucket] = TombStone]
     ELSE t

\* Table::delete: its return value through get_at_index (Option: the value of
\* the bucket, or None)
delete_result(t, key) ==
  LET bucket == find_bucket(key, t.entries, t.capacity)
  IN IF t.entries[bucket].kind = "Occupied"
     THEN [tag |-> "Some", value |-> t.entries[bucket].value]
     ELSE [tag |-> "None"]

RECURSIVE ProbeEntry(_, _, _)
\* the loop of find_entry_index: a bucket, or -1 for None
ProbeEntry(t, key, bucket) ==
  LET e == t.entries[bucket]
  IN CASE e.kind = "Occupied" ->
            IF e.key = key THEN bucket
            ELSE ProbeEntry(t, key, (bucket + 1) % t.capacity)
       [] e.kind = "Vacant" -> -1
       [] e.kind = "TombStone" -> ProbeEntry(t, key, (bucket + 1) % t.capacity)

find_entry_index(t, key) == ProbeEntry(t, key, HashMod(key.hash, t.capacity))

\* Table::get through find_entry: find_entry(..).unwrap() panics on None
get_panics(t, key) == find_entry_index(t, key) = -1

get(t, key) == t.entries[find_entry_index(t, key)].value

\* ------------------------------------------------------------------------
\* memory.rs: raw string memory.  heap[p] holds the bytes written through
\* pointer p; every allocation is made by allocate::<String>() and is
\* STRING_ALLOC_SIZE bytes long.  A write past the allocation is undefined
\* behaviour: with ub = "clobbered" the bytes that landed outside the
\* allocation are later overwritten by their owner and read back as junk,
\* with ub = "intact" they read back as written.
\* ------------------------------------------------------------------------
NoPointer == FatPointer(0, 0, <<0, 0>>)

allocate(heap) == Len(heap) + 1

copy(heap, bytes, dest, offset, ub) ==
  LET old == IF dest \in DOMAIN heap THEN heap[dest] ELSE <<>>
      kept == SubSeq(old, 1, offset)
      written == [i \in 1..Len(bytes) |->
                    IF offset + i > STRING_ALLOC_SIZE /\ ub = "clobbered"
                    THEN 33 ELSE bytes[i]]
      cell == kept \o written
  IN IF dest \in DOMAIN heap THEN [heap EXCEPT ![dest] = cell]
     ELSE Append(heap, cell)

read_string(heap, ptr, len) == IF len = 0 THEN <<>> ELSE SubSeq(heap[ptr], 1, len)

RECURSIVE ProbeValue(_, _, _, _)
\* the loop of find_entry_with_value: the stored key, or NoPointer for None
ProbeValue(t, heap, str_value, bucket) ==
  LET e == t.entries[bucket]
  IN CASE e.kind = "Occupied" ->
            IF read_string(heap, e.key.ptr, e.key.size) = str_value THEN e.key
            ELSE ProbeValue(t, heap, str_value, (bucket + 1) % t.capacity)
       [] e.kind = "Vacant" -> NoPointer
       [] e.kind = "TombStone" ->
            ProbeValue(t, heap, str_value, (bucket + 1) % t.capacity)

find_entry_with_value(t, heap, str_value, hash_value) ==
  ProbeValue(t, heap, str_value, HashMod(hash_value, t.capacity))

\* ------------------------------------------------------------------------
\* chunk.rs
\* ------------------------------------------------------------------------
ChunkInit == [code |-> <<>>, constants |-> <<>>, lines |-> <<>>]

write_chunk(ch, byte, line) ==
  [ch EXCEPT !.code = Append(@, byte), !.lines = Append(@, line)]

\* add_constant: the chunk afterwards; the index returned is ConstantCount
add_constant(ch, value) == [ch EXCEPT !.constants = Append(@, value)]

\* ValueArray::count: the 0-based index of the last constant
ConstantCount(ch) == Len(ch.constants) - 1

RECURSIVE WriteNeBytes(_, _, _, _)
\* usize::to_ne_bytes written byte by byte (little-endian target)
WriteNeBytes(ch, index, n, line) ==
  IF n = 0 THEN ch
  ELSE WriteNeBytes(write_chunk(ch, index % 256, line), index \div 256, n - 1, line)

\* a faulty write_index that writes the low byte of every index (C29 must
\* notice it)
write_index_low_byte(ch, index, line) == write_chunk(ch, index % 256, line)

write_index(ch, index, line) ==
  IF index <= 255 THEN write_chunk(ch, index, line)
  ELSE WriteNeBytes(ch, index, 8, line)

\* (the Print opcode is spelled Print_ here)
OpCode ==
  [Return |-> 1, Constant |-> 2, ConstantLong |-> 3, Negate |-> 4, Add |-> 5,
   Subtract |-> 6, Multiply |-> 7, Divide |-> 8, Nil |-> 9, True |-> 10,
   False |-> 11, Not |-> 12, Equal |-> 13, Greater |-> 14, Less |-> 15,
   Print_ |-> 16, Pop |-> 17, DefineGlobalVariable |-> 18,
   SetGlobalVariable |-> 19, GetGlobalVariable |-> 20, SetLocalVariable |-> 21,
   GetLocalVariable |-> 22, JumpIfFalse |-> 23, Jump |-> 24, Loop |-> 25,
   Call |-> 26, Closure |-> 27, SetUpValue |-> 28, GetUpValue |-> 29]

write_constant(ch, value, line) ==
  LET ch1 == add_constant(ch, value)
      index == ConstantCount(ch1)
      ch2 == IF index <= 255 THEN write_chunk(ch1, OpCode.Constant, line)
             ELSE write_chunk(ch1, OpCode.ConstantLong, line)
  IN write_index(ch2, index, line)

new_function(fun_type) ==
  [arity |-> 0, chunk |-> ChunkInit, name |-> NoPointer, func_type |-> fun_type]

\* ------------------------------------------------------------------------
\* scanner.rs: tokens.  A token carries its lexeme (source[start..start+length]).
\* ------------------------------------------------------------------------
Token(type, lex, line) == [type |-> type, lex |-> lex, line |-> line]

NoToken == Token("None", <<>>, 0)

\* a function's result: the state it leaves and the value it returns
Ret(c, r) == [c |-> c, r |-> r]

\* ------------------------------------------------------------------------
\* scanner.rs: Scanner.  A source is the sequence of its characters (code
\* points); chars[i] of the code is chars[i + 1] here.  The record has two
\* fields more than the struct: abort, an index outside chars has panicked, and
\* hung, a loop is repeating without changing anything.  A character read
\* outside chars is written -1.
\* ------------------------------------------------------------------------
ScannerInit(start, total_size, source) ==
  [start |-> start, current |-> start, line |-> 1, total_size |-> total_size,
   chars |-> source, abort |-> FALSE, hung |-> FALSE]

refresh(s, start, total_size, source) ==
  [s EXCEPT !.chars = source, !.total_size = total_size, !.current = start,
            !.line = 1, !.start = start]

RECURSIVE Utf8Len(_)
\* String::len: the number of bytes of the UTF-8 encoding
Utf8Len(source) ==
  IF source = <<>> THEN 0
  ELSE (IF Head(source) < 128 THEN 1
        ELSE IF Head(source) < 2048 THEN 2
        ELSE IF Head(source) < 65536 THEN 3 ELSE 4) + Utf8Len(Tail(source))

\* hash indexes the characters of the text with 0..value.len(), the number of
\* its bytes: chars[i] is out of bounds once the text has a character of more
\* than one byte
hash_panics(text) == Utf8Len(text) > Len(text)

\* char::is_digit(10)
is_digit(c) == c \in 48..57

\* char::is_alphabetic, for the code points below 256
IsAlphabetic(c) ==
  \/ c \in 65..90
  \/ c \in 97..122
  \/ c \in {170, 181, 186}
  \/ c \in (192..255) \ {215, 247}

is_alpha(c) == IsAlphabetic(c) \/ c = 95

is_at_end(s) == s.current = s.total_size

HasChar(s, i) == i \in 0..(Len(s.chars) - 1)

CharAt(s, i) == s.chars[i + 1]

Aborted(s) == [s EXCEPT !.abort = TRUE]

scanner_advance(s) == [s EXCEPT !.current = @ + 1]

scanner_peek(s) ==
  IF is_at_end(s) THEN 0
  ELSE IF HasChar(s, s.current) THEN CharAt(s, s.current) ELSE -1

peek_next(s) ==
  IF is_at_end(s) THEN 0
  ELSE IF HasChar(s, s.current + 1) THEN CharAt(s, s.current + 1) ELSE -1

make_token(s, token_type) ==
  [token_type |-> token_type, start |-> s.start, length |-> s.current - s.start,
   line |-> s.line]

error_token(s, message) ==
  [token_type |-> "Error", start |-> s.start, length |-> Len(message),
   line |-> s.line]

RECURSIVE SkipComment(_)
\* the while loop of skip_whitespace: to the end of the line or of the source
SkipComment(s) ==
  IF scanner_peek(s) = -1 THEN Aborted(s)
  ELSE IF scanner_peek(s) # 10 /\ ~is_at_end(s) THEN SkipComment(scanner_advance(s))
  ELSE s

RECURSIVE skip_whitespace(_)
\* on a / that no second / follows, the loop goes round without a change
skip_whitespace(s) ==
  IF s.abort THEN s
  ELSE IF scanner_peek(s) = -1 THEN Aborted(s)
  ELSE IF scanner_peek(s) \in {32, 13, 9} THEN skip_whitespace(scanner_advance(s))
  ELSE IF scanner_peek(s) = 10
       THEN skip_whitespace(scanner_advance([s EXCEPT !.line = @ + 1]))
  ELSE IF scanner_peek(s) = 47
       THEN IF peek_next(s) = -1 THEN Aborted(s)
            ELSE IF peek_next(s) = 47 THEN skip_whitespace(SkipComment(s))
            ELSE [s EXCEPT !.hung = TRUE]
  ELSE s

RECURSIVE Digits(_)
\* while self.peek().is_digit(10)
Digits(s) ==
  IF scanner_peek(s) = -1 THEN Aborted(s)
  ELSE IF is_digit(scanner_peek(s)) THEN Digits(scanner_advance(s))
  ELSE s

number_token(s) ==
  LET fraction(s1) ==
        IF s1.abort \/ scanner_peek(s1) # 46 THEN s1
        ELSE IF peek_next(s1) = -1 THEN Aborted(s1)
        ELSE IF is_digit(peek_next(s1)) THEN Digits(scanner_advance(s1))
        ELSE s1
  IN fraction(Digits(s))

RECURSIVE scanner_identifier(_)
scanner_identifier(s) ==
  IF scanner_peek(s) = -1 THEN Aborted(s)
  ELSE IF is_digit(scanner_peek(s)) \/ is_alpha(scanner_peek(s))
       THEN scanner_identifier(scanner_advance(s))
  ELSE s

\* the slice of chars is compared with rest; the length of the lexeme is not
check_keyword(s, start, length, rest, token_type) ==
  LET start_index == s.start + start
      end_index_exclusive == start_index + length
  IN IF /\ Len(s.chars) >= end_index_exclusive
        /\ SubSeq(s.chars, start_index + 1, end_index_exclusive) = rest
     THEN token_type
     ELSE "Identifier"

identifier_type(s) ==
  LET first == CharAt(s, s.start)
      second == CharAt(s, s.start + 1)
  IN CASE first = 97 -> check_keyword(s, 1, 2, <<110, 100>>, "And")
       [] first = 99 -> check_keyword(s, 1, 4, <<108, 97, 115, 115>>, "Class")
       [] first = 101 -> check_keyword(s, 1, 3, <<108, 115, 101>>, "Else")
       [] first = 105 -> check_keyword(s, 1, 1, <<102>>, "If")
       [] first = 110 -> check_keyword(s, 1, 2, <<105, 108>>, "Nil")
       [] first = 111 -> check_keyword(s, 1, 1, <<114>>, "Or")
       [] first = 112 -> check_keyword(s, 1, 4, <<114, 105, 110, 116>>, "Print")
       [] first = 114 ->
            check_keyword(s, 1, 5, <<101, 116, 117, 114, 110>>, "Return")
       [] first = 115 -> check_keyword(s, 1, 4, <<117, 112, 101, 114>>, "Super")
       [] first = 118 -> check_keyword(s, 1, 2, <<97, 114>>, "Var")
       [] first = 119 -> check_keyword(s, 1, 4, <<104, 105, 108, 101>>, "While")
       [] first = 102 ->
            IF s.current - s.start > 1
            THEN CASE second = 97 -> check_keyword(s, 2, 3, <<108, 115, 101>>, "False")
                   [] second = 111 -> check_keyword(s, 2, 1, <<114>>, "For")
                   [] second = 117 -> check_keyword(s, 2, 1, <<110>>, "Fun")
                   [] OTHER -> "Identifier"
            ELSE "Identifier"
       [] first = 116 ->
            IF s.current - s.start > 1
            THEN CASE second = 104 -> check_keyword(s, 2, 2, <<105, 115>>, "This")
                   [] second = 114 -> check_keyword(s, 2, 2, <<117, 101>>, "True")
                   [] OTHER -> "Identifier"
            ELSE "Identifier"
       [] OTHER -> "Identifier"

\* match_char: the scanner afterwards and the result
match_char(s, c) ==
  IF is_at_end(s) THEN Ret(s, FALSE)
  ELSE IF ~HasChar(s, s.current) THEN Ret(Aborted(s), FALSE)
  ELSE IF CharAt(s, s.current) = c THEN Ret(scanner_advance(s), TRUE)
  ELSE Ret(s, FALSE)

RECURSIVE StringBody(_)
\* the while loop of the arm '"': to the closing quote or the end of the source
StringBody(s) ==
  IF scanner_peek(s) = -1 THEN Aborted(s)
  ELSE IF scanner_peek(s) # 34 /\ ~is_at_end(s)
       THEN StringBody(scanner_advance(IF scanner_peek(s) = 10
                                       THEN [s EXCEPT !.line = @ + 1] ELSE s))
  ELSE s

\* the token of a scanner that returns one, NoToken of one that panicked
Returned(s, token_type) ==
  IF s.abort THEN Ret(s, NoToken) ELSE Ret(s, make_token(s, token_type))

\* the match of scan_token on the character c = chars[start], already consumed
ScanPunctuation(s, c) ==
  LET one_or_two(m, two, one) == Returned(m.c, IF m.r THEN two ELSE one)
      quoted(body) ==
        IF body.abort THEN Ret(body, NoToken)
        ELSE IF is_at_end(body)
             THEN Ret(body, error_token(body, "Unterminated string."))
             ELSE Returned(scanner_advance(body), "String")
  IN CASE c = 40 -> Returned(s, "LeftParen")
       [] c = 41 -> Returned(s, "RightParen")
       [] c = 123 -> Returned(s, "LeftBrace")
       [] c = 125 -> Returned(s, "RightBrace")
       [] c = 59 -> Returned(s, "Semicolon")
       [] c = 44 -> Returned(s, "Comma")
       [] c = 46 -> Returned(s, "Dot")
       [] c = 45 -> Returned(s, "Minus")
       [] c = 43 -> Returned(s, "Plus")
       [] c = 47 -> Returned(s, "Slash")
       [] c = 42 -> Returned(s, "Star")
       [] c = 33 -> one_or_two(match_char(s, 61), "BangEqual", "Bang")
       [] c = 61 -> one_or_two(match_char(s, 61), "EqualEqual", "Equal")
       [] c = 60 -> one_or_two(match_char(s, 61), "LessEqual", "Less")
       [] c = 62 -> one_or_two(match_char(s, 61), "GreaterEqual", "Greater")
       [] c = 34 -> quoted(StringBody(s))
       [] OTHER -> Ret(s, error_token(s, "Unexpected character"))

\* Scanner::scan_token on the characters of the source: the scanner afterwards
\* and the token returned (NoToken when the call does not return)
scanner_scan_token(s) ==
  LET lexeme(s2, c) ==
        IF is_digit(c) THEN Returned(number_token(s2), "Number")
        ELSE IF is_alpha(c)
             THEN LET named(s3) ==
                        IF s3.abort THEN Ret(s3, NoToken)
                        ELSE Ret(s3, make_token(s3, identifier_type(s3)))
                  IN named(scanner_identifier(s2))
        ELSE ScanPunctuation(s2, c)
      token(s1) ==
        IF is_at_end(s1) THEN Ret(s1, make_token(s1, "Eof"))
        ELSE IF ~HasChar(s1, s1.start) THEN Ret(Aborted(s1), NoToken)
        ELSE lexeme(scanner_advance(s1), CharAt(s1, s1.start))
      skipped(s0) ==
        IF s0.abort \/ s0.hung THEN Ret(s0, NoToken)
        ELSE token([s0 EXCEPT !.start = s0.current])
  IN skipped(skip_whitespace(s))

\* ------------------------------------------------------------------------
\* compiler.rs.  The compiler state is one record c:
\*   toks, pos              the scanner: the tokens of the source, the next one
\*   current, previous      Parser.current / Parser.previous
\*   had_error, panic_mode  Parser flags;  errors: the diagnostics printed
\*   current_context, scope_depth, contexts   (contexts[i + 1] is contexts[i])
\*   table, heap            the intern table and the string memory
\*   ub, checked            outcome of an out-of-allocation write;
\*                          whether the build checks integer overflow
\*   abort                  the compiler panicked
\* ------------------------------------------------------------------------

EmptyLocal == [kind |-> "Empty"]
FilledLocal(token, depth) == [kind |-> "Filled", token |-> token, depth |-> depth]
EmptyUpValue == [kind |-> "Empty"]
FilledUpValue(index, is_local) ==
  [kind |-> "Filled", index |-> index, is_local |-> is_local]

CompilerContextInit ==
  [function |-> new_function("Script"),
   locals |-> [i \in 0..(LOCALS_MAX - 1) |-> EmptyLocal],
   local_count |-> 1,
   up_values |-> [i \in 0..(LOCALS_MAX - 1) |-> EmptyUpValue],
   up_value_count |-> 0]

CompilerInit(toks, table, heap, ub, checked) ==
  [toks |-> toks, pos |-> 1, current |-> NoToken, previous |-> NoToken,
   had_error |-> FALSE, panic_mode |-> FALSE, errors |-> <<>>,
   current_context |-> 0, scope_depth |-> 0,
   contexts |-> <<CompilerContextInit>>,
   table |-> table, heap |-> heap, ub |-> ub, checked |-> checked,
   abort |-> FALSE]

current_context(c) == c.contexts[c.current_context + 1]

current_chunk(c) == current_context(c).function.chunk

SetChunk(c, ch) == [c EXCEPT !.contexts[c.current_context + 1].function.chunk = ch]

\* Scanner::scan_token over the scanned source: Eof again and again at the end
scan_token(c) ==
  IF c.pos <= Len(c.toks)
  THEN Ret([c EXCEPT !.pos = c.pos + 1], c.toks[c.pos])
  ELSE Ret(c, Token("Eof", <<>>,
                    IF Len(c.toks) = 0 THEN 1 ELSE c.toks[Len(c.toks)].line))

error_at(c, message, token) ==
  IF c.panic_mode THEN c
  ELSE [c EXCEPT !.panic_mode = TRUE, !.had_error = TRUE,
                 !.errors = Append(@, message)]

error_at_current(c, message) == error_at(c, message, c.current)

error(c, message) == error_at(c, message, c.previous)

RECURSIVE AdvanceLoop(_)
AdvanceLoop(c) ==
  LET s == scan_token(c)
      c1 == [s.c EXCEPT !.current = s.r]
  IN IF s.r.type # "Error" THEN c1
     ELSE AdvanceLoop(error_at_current(c1, "@todo some error here"))

advance(c) == AdvanceLoop([c EXCEPT !.previous = c.current])

check(c, token_type) == c.current.type = token_type

\* match_token: the state afterwards; its result is check(c, token_type)
match_token(c, token_type) ==
  IF check(c, token_type) THEN advance(c) ELSE c

consume(c, token_type, message) ==
  IF c.current.type = token_type THEN advance(c)
  ELSE error_at_current(c, message)

consume_semicolon(c) ==
  consume(c, "Semicolon", "Expected semicolon at the end of experession")

emit_byte(c, byte) == SetChunk(c, write_chunk(current_chunk(c), byte, c.previous.line))

emit_opcode(c, opcode) == emit_byte(c, opcode)

emit_opcodes(c, opcode_1, opcode_2) == emit_opcode(emit_opcode(c, opcode_1), opcode_2)

emit_return(c) == emit_opcode(emit_opcode(c, OpCode.Nil), OpCode.Return)

end_compiler(c) ==
  LET c1 == emit_return(c)
  IN IF c1.current_context > 0
     THEN [c1 EXCEPT !.current_context = c1.current_context - 1]
     ELSE c1

\* emit_constant: write_constant on the current chunk, at the previous token's line
emit_constant(c, value) ==
  SetChunk(c, write_constant(current_chunk(c), value, c.previous.line))

emit_jump(c, instruction) ==
  LET c1 == emit_byte(emit_byte(emit_opcode(c, instruction), 255), 255)
  IN Ret(c1, Len(current_chunk(c1).code) - 2)

\* code offsets are 0-based in the source, code[offset + 1] here
patch_jump(c, offset) ==
  LET jump == (Len(current_chunk(c).code) - offset - 2) % 65536
      ch == current_chunk(c)
  IN SetChunk(c, [ch EXCEPT !.code[offset + 1] = (jump \div 256) % 256,
                            !.code[offset + 2] = jump % 256])

emit_loop(c, loop_start) ==
  LET c1 == emit_opcode(c, OpCode.Loop)
      jump == (Len(current_chunk(c1).code) - loop_start + 2) % 65536
  IN emit_byte(emit_byte(c1, (jump \div 256) % 256), jump % 256)

begin_scope(c) == [c EXCEPT !.scope_depth = c.scope_depth + 1]

\* A usize that wrapped below zero in a build without overflow checks is kept
\* as the negative number it wrapped from (2^64 + n).
end_scope(c) ==
  LET depth == c.scope_depth - 1
      c1 == [c EXCEPT !.scope_depth = depth]
      ctx == current_context(c1)
      scoped_locals ==
        Cardinality({i \in DOMAIN ctx.locals :
                       ctx.locals[i].kind = "Filled" /\ ctx.locals[i].depth > depth})
      RECURSIVE Pops(_, _)
      Pops(cc, n) == IF n = 0 THEN cc ELSE Pops(emit_opcode(cc, OpCode.Pop), n - 1)
      c2 == Pops(c1, scoped_locals)
      left == ctx.local_count - scoped_locals
  IN IF ctx.local_count = 0 THEN c1
     ELSE IF left < 0 /\ ctx.local_count >= 0 /\ c.checked
          THEN [c2 EXCEPT !.abort = TRUE]
          ELSE [c2 EXCEPT !.contexts[c2.current_context + 1].local_count = left]

token_name(token) == token.lex

\* the index of the last matching local, or -1 for None
resolve_from_locals(locals, scope_depth, token) ==
  LET hits == {i \in DOMAIN locals :
                 /\ locals[i].kind = "Filled"
                 /\ locals[i].depth >= scope_depth
                 /\ Len(token.lex) = Len(locals[i].token.lex)
                 /\ token_name(token) = token_name(locals[i].token)}
  IN IF hits = {} THEN -1 ELSE CHOOSE i \in hits : \A j \in hits : j <= i

resolve_local(c, token) ==
  IF current_context(c).local_count = 0 THEN -1
  ELSE resolve_from_locals(current_context(c).locals, c.scope_depth, token)

\* index as u8
AsU8(index) == index % 256

add_up_value(c, index, is_local, context_index) ==
  LET ctx == c.contexts[context_index + 1]
  IN IF ctx.up_value_count \notin DOMAIN ctx.up_values
     THEN [c EXCEPT !.abort = TRUE]
     ELSE [c EXCEPT !.contexts[context_index + 1].up_values[ctx.up_value_count] =
                       FilledUpValue(index, is_local),
                    !.contexts[context_index + 1].up_value_count = @ + 1]

RECURSIVE recursive_resolve_up_value(_, _, _, _)
recursive_resolve_up_value(c, name, context_index, scope_depth) ==
  IF context_index = 0 THEN Ret(c, -1)
  ELSE LET locals == c.contexts[context_index].locals
           index == resolve_from_locals(locals, scope_depth - 1, name)
       IN IF index # -1
          THEN Ret(add_up_value(c, AsU8(index), TRUE, context_index), index)
          ELSE LET r == recursive_resolve_up_value(c, name, context_index - 1,
                                                   scope_depth - 1)
               IN Ret(add_up_value(r.c, AsU8(r.r), FALSE, context_index), r.r)

\* reuse_existing_string / create_new_string: the constant is emitted with
\* write_constant (emit_constant) or only added to the pool; the result is its index
AddStringConstant(c, value, emit) ==
  LET c1 == IF emit THEN emit_constant(c, value)
            ELSE SetChunk(c, add_constant(current_chunk(c), value))
  IN Ret(c1, ConstantCount(current_chunk(c1)))

reuse_existing_string(c, existing, emit) ==
  AddStringConstant(c, VObj(ObjStr(existing)), emit)

create_new_string(c, str_value, hash_value, emit) ==
  LET str_ptr == allocate(c.heap)
      heap1 == copy(c.heap, str_value, str_ptr, 0, c.ub)
      fat_ptr == FatPointer(str_ptr, Len(str_value), hash_value)
      c1 == [c EXCEPT !.heap = heap1,
                      !.table = insert(c.table, fat_ptr, VMissing)]
  IN AddStringConstant(c1, VObj(ObjStr(fat_ptr)), emit)

\* Compiler::string with prev_token_to_string and get_existing_string
string(c, emit) ==
  LET str_value == token_name(c.previous)
      hash_value == hash(str_value)
      existing == find_entry_with_value(c.table, c.heap, str_value, hash_value)
  IN IF existing # NoPointer THEN reuse_existing_string(c, existing, emit)
     ELSE create_new_string(c, str_value, hash_value, emit)

identifier(c) == string(c, FALSE)

declare_variable(c) ==
  IF c.scope_depth > 0
  THEN IF current_context(c).local_count = 255
       THEN error(c, "Too many local variables in function.")
       ELSE LET token == c.previous
                c1 == IF resolve_local(c, token) # -1
                      THEN error(c, "Already a variable with this name in this scope.")
                      ELSE c
                local_count == current_context(c1).local_count
            IN IF local_count \notin DOMAIN current_context(c1).locals
               THEN [c1 EXCEPT !.abort = TRUE]
               ELSE [c1 EXCEPT
                       !.contexts[c1.current_context + 1].locals[local_count] =
                          FilledLocal(token, c1.scope_depth),
                       !.contexts[c1.current_context + 1].local_count = @ + 1]
  ELSE c

parse_variable(c) ==
  LET c1 == declare_variable(consume(c, "Identifier", "Expected name after variable"))
  IN IF c1.scope_depth <= 0 THEN identifier(c1) ELSE Ret(c1, 0)

define_variable(c, index) ==
  IF c.scope_depth > 0 THEN c
  ELSE LET c1 == emit_opcode(c, OpCode.DefineGlobalVariable)
       IN SetChunk(c1, write_index(current_chunk(c1), index, c1.previous.line))

parse_and_define_parameter(c) ==
  LET p == parse_variable(c) IN define_variable(p.c, p.r)

Precedence ==
  [None |-> 1, Assignment |-> 2, Or |-> 3, And |-> 4, Equality |-> 5,
   Comparison |-> 6, Term |-> 7, Factor |-> 8, Unary |-> 9, Call |-> 10,
   Primary |-> 11]

ParseRule(prefix, infix, precedence) ==
  [prefix |-> prefix, infix |-> infix, precedence |-> precedence]

parse_rule(token_type) ==
  CASE token_type = "LeftParen" -> ParseRule("GROUPING", "CALL", Precedence.Call)
    [] token_type \in {"Minus", "Bang"} -> ParseRule("UNARY", "BINARY", Precedence.Term)
    [] token_type = "Plus" -> ParseRule("NOOP", "BINARY", Precedence.Term)
    [] token_type \in {"EqualEqual", "BangEqual"} ->
         ParseRule("NOOP", "BINARY", Precedence.Equality)
    [] token_type \in {"Greater", "Less", "GreaterEqual", "LessEqual"} ->
         ParseRule("NOOP", "BINARY", Precedence.Comparison)
    [] token_type \in {"Star", "Slash"} -> ParseRule("NOOP", "BINARY", Precedence.Factor)
    [] token_type = "Number" -> ParseRule("NUMBER", "NOOP", Precedence.None)
    [] token_type \in {"False", "True", "Nil"} ->
         ParseRule("LITERAL", "NOOP", Precedence.None)
    [] token_type = "String" -> ParseRule("STRING", "NOOP", Precedence.None)
    [] token_type = "Identifier" -> ParseRule("VARIABLE", "NOOP", Precedence.None)
    [] token_type = "Or" -> ParseRule("NOOP", "OR", Precedence.Or)
    [] token_type = "And" -> ParseRule("NOOP", "AND", Precedence.And)
    [] OTHER -> ParseRule("NOOP", "NOOP", Precedence.None)

RECURSIVE DecimalValue(_, _, _)
DecimalValue(lex, i, acc) ==
  IF i > Len(lex) THEN acc ELSE DecimalValue(lex, i + 1, acc * 10 + (lex[i] - 48))

\* str_to_float for a lexeme of decimal digits (the sources used here have no
\* fractional literals)
str_to_float(token) == DecimalValue(token_name(token), 1, 0)

number(c) == emit_constant(c, VNumber(str_to_float(c.previous)))

literal(c) ==
  CASE c.previous.type = "False" -> emit_opcode(c, OpCode.False)
    [] c.previous.type = "Nil" -> emit_opcode(c, OpCode.Nil)
    [] c.previous.type = "True" -> emit_opcode(c, OpCode.True)
    [] OTHER -> c

emit_operator(c, operator_type) ==
  CASE operator_type = "Minus" -> emit_opcode(c, OpCode.Subtract)
    [] operator_type = "Plus" -> emit_opcode(c, OpCode.Add)
    [] operator_type = "Star" -> emit_opcode(c, OpCode.Multiply)
    [] operator_type = "Slash" -> emit_opcode(c, OpCode.Divide)
    [] operator_type = "Greater" -> emit_opcode(c, OpCode.Greater)
    [] operator_type = "GreaterEqual" -> emit_opcodes(c, OpCode.Less, OpCode.Not)
    [] operator_type = "Less" -> emit_opcode(c, OpCode.Less)
    [] operator_type = "LessEqual" -> emit_opcodes(c, OpCode.Greater, OpCode.Not)
    [] operator_type = "EqualEqual" -> emit_opcode(c, OpCode.Equal)
    [] operator_type = "BangEqual" -> emit_opcodes(c, OpCode.Equal, OpCode.Not)
    [] OTHER -> c

\* The functions of the recursive descent call one another through Apply:
\* Apply(fn, c, x) is the function named fn applied to the compiler state c, with
\* x its argument (can_assign of a ParseFn, the precedence of parse_precedence).
RECURSIVE Apply(_, _, _)

expression(c) == Apply("parse_precedence", c, Precedence.Assignment)

grouping(c) ==
  LET c1 == expression(c)
  IN IF c1.abort THEN c1 ELSE consume(c1, "RightParen", "Expect ')' after expression")

unary(c) ==
  LET operator_type == c.previous.type
      c1 == Apply("parse_precedence", c, Precedence.Unary)
  IN CASE c1.abort -> c1
       [] operator_type = "Minus" -> emit_opcode(c1, OpCode.Negate)
       [] operator_type = "Bang" -> emit_opcode(c1, OpCode.Not)
       [] OTHER -> c1

binary(c) ==
  LET operator_type == c.previous.type
      rule == parse_rule(operator_type)
      c1 == Apply("parse_precedence", c, rule.precedence + 1)
  IN IF c1.abort THEN c1 ELSE emit_operator(c1, operator_type)

\* a faulty and that emits no jump over its right operand (C15 must notice it)
and_without_jump(c) ==
  Apply("parse_precedence", emit_opcode(c, OpCode.Pop), Precedence.And)

and(c) ==
  LET j == emit_jump(c, OpCode.JumpIfFalse)
      c1 == emit_opcode(j.c, OpCode.Pop)
      c2 == Apply("parse_precedence", c1, Precedence.And)
  IN IF c2.abort THEN c2 ELSE patch_jump(c2, j.r)

or(c) ==
  LET else_jump == emit_jump(c, OpCode.JumpIfFalse)
      end_jump == emit_jump(else_jump.c, OpCode.Jump)
      c1 == emit_opcode(patch_jump(end_jump.c, else_jump.r), OpCode.Pop)
      c2 == Apply("parse_precedence", c1, Precedence.Or)
  IN IF c2.abort THEN c2 ELSE patch_jump(c2, end_jump.r)

RECURSIVE CallArguments(_, _)
\* the argument loop of call: r is arg_count (a u8)
CallArguments(c, arg_count) ==
  IF check(c, "Comma")
  THEN LET c1 == expression(advance(c))
           n == arg_count + 1
       IN IF c1.abort THEN Ret(c1, n)
          ELSE CallArguments(IF n = 255
                             THEN error(c1, "Can't have more than 255 arguments")
                             ELSE c1, n)
  ELSE Ret(c, arg_count)

call(c) ==
  LET emit_call(a) ==
        IF a.c.abort THEN a.c
        ELSE emit_byte(emit_opcode(consume(a.c, "RightParen",
                                           "Expected ')' in function call."),
                                   OpCode.Call), a.r)
  IN emit_call(IF ~check(c, "RightParen") THEN CallArguments(expression(c), 1)
               ELSE Ret(c, 0))

variable(c, can_assign) ==
  LET token == c.previous
      \* the instruction and its operand, once the name is resolved
      access(c1, get_op, set_op, existing_index) ==
        LET line == c1.previous.line
            operand(c2) ==
              SetChunk(c2, write_index(current_chunk(c2), existing_index, line))
            assign(value) ==
              IF value.abort THEN value ELSE operand(emit_opcode(value, set_op))
        IN IF can_assign /\ check(c1, "Equal")
           THEN assign(expression(advance(c1)))
           ELSE operand(emit_opcode(c1, get_op))
      global(g) ==
        access(g.c, OpCode.GetGlobalVariable, OpCode.SetGlobalVariable, g.r)
      up_value(up) ==
        IF up.r # -1 THEN access(up.c, OpCode.GetUpValue, OpCode.SetUpValue, up.r)
        ELSE global(identifier(up.c))
      local(local_index) ==
        IF local_index >= 0
        THEN access(c, OpCode.GetLocalVariable, OpCode.SetLocalVariable, local_index)
        ELSE up_value(recursive_resolve_up_value(c, token, c.current_context,
                                                 c.scope_depth))
  IN local(resolve_local(c, token))

RECURSIVE InfixLoop(_, _, _)
\* the while loop of parse_precedence; infix.unwrap() panics on a NOOP infix
InfixLoop(c, precedence, can_assign) ==
  IF c.abort \/ precedence > parse_rule(c.current.type).precedence THEN c
  ELSE LET c1 == advance(c)
           infix == parse_rule(c1.previous.type).infix
       IN IF infix = "NOOP" THEN [c1 EXCEPT !.abort = TRUE]
          ELSE InfixLoop(Apply(infix, c1, can_assign), precedence, can_assign)

parse_precedence(c, precedence) ==
  LET c1 == advance(c)
      prefix == parse_rule(c1.previous.type).prefix
      can_assign == precedence <= Precedence.Assignment
  IN IF prefix = "NOOP" THEN error(c1, "Expect expression")
     ELSE LET c2 == InfixLoop(Apply(prefix, c1, can_assign),
                              precedence, can_assign)
          IN IF can_assign /\ check(c2, "Equal")
             THEN error(advance(c2), "Invalid assignment target")
             ELSE c2

expression_statement(c) ==
  LET c1 == expression(c)
  IN IF c1.abort THEN c1 ELSE emit_opcode(consume_semicolon(c1), OpCode.Pop)

print_stmt(c) ==
  LET c1 == expression(c)
  IN IF c1.abort THEN c1 ELSE emit_opcode(consume_semicolon(c1), OpCode.Print_)

return_stmt(c) ==
  IF check(c, "Semicolon") THEN emit_return(advance(c))
  ELSE LET c1 == expression(c)
       IN IF c1.abort THEN c1 ELSE emit_opcode(consume_semicolon(c1), OpCode.Return)

variable_decl(c) ==
  LET define(p, c1) ==
        IF c1.abort THEN c1 ELSE define_variable(consume_semicolon(c1), p.r)
      initializer(p) ==
        define(p, IF check(p.c, "Equal") THEN expression(advance(p.c))
                  ELSE emit_opcode(p.c, OpCode.Nil))
  IN initializer(parse_variable(c))

RECURSIVE BlockRun(_, _)
\* up to 2^k iterations of the while loop of block
BlockRun(c, k) ==
  IF c.abort \/ check(c, "RightBrace") \/ check(c, "Eof") THEN c
  ELSE IF k = 0 THEN Apply("declaration", c, FALSE)
  ELSE BlockRun(BlockRun(c, k - 1), k - 1)

RECURSIVE BlockLoop(_, _)
\* the while loop of block, taken in runs of 1, 2, 4, ... iterations (which keeps
\* the evaluation of a long block shallow)
BlockLoop(c, k) ==
  IF c.abort \/ check(c, "RightBrace") \/ check(c, "Eof") THEN c
  ELSE BlockLoop(BlockRun(c, k), k + 1)

block(c) ==
  LET c1 == BlockLoop(c, 0)
  IN IF c1.abort THEN c1 ELSE consume(c1, "RightBrace", "Expect '}' after block.")

if_stmt(c) ==
  LET c1 == consume(expression(consume(c, "LeftParen", "Expect '(' after if statement")),
                    "RightParen", "Expect ')' at the end of if statement")
      offset == emit_jump(c1, OpCode.JumpIfFalse)
      c2 == Apply("statement", emit_opcode(offset.c, OpCode.Pop), FALSE)
      else_offset == emit_jump(c2, OpCode.Jump)
      c3 == emit_opcode(patch_jump(else_offset.c, offset.r), OpCode.Pop)
      c4 == IF check(c3, "Else") THEN Apply("statement", advance(c3), FALSE) ELSE c3
  IN CASE c1.abort -> c1
       [] c2.abort -> c2
       [] c4.abort -> c4
       [] OTHER -> patch_jump(c4, else_offset.r)

while_stmt(c) ==
  LET loop_start == Len(current_chunk(c).code)
      c1 == consume(expression(consume(c, "LeftParen", "Expect '(' after if statement")),
                    "RightParen", "Expect ')' at the end of if statement")
      exit_jump == emit_jump(c1, OpCode.JumpIfFalse)
      c2 == Apply("statement", emit_opcode(exit_jump.c, OpCode.Pop), FALSE)
      c3 == patch_jump(emit_loop(c2, loop_start), exit_jump.r)
  IN CASE c1.abort -> c1
       [] c2.abort -> c2
       [] OTHER -> emit_opcode(c3, OpCode.Pop)

for_stmt(c) ==
  LET \* after the body: the jump back, the exit jump patched, the scope closed
      close(cond, incr, body) ==
        IF body.abort THEN body
        ELSE LET c3 == emit_loop(body, incr.r)
             IN end_scope(IF cond.r # -1
                          THEN emit_opcode(patch_jump(c3, cond.r), OpCode.Pop)
                          ELSE c3)
      loop_body(cond, incr) ==
        IF incr.c.abort THEN incr.c
        ELSE close(cond, incr, Apply("statement", incr.c, FALSE))
      \* optional increment: r is the loop start the body loops back to
      increment(loop_start, cond) ==
        IF cond.c.abort THEN cond.c
        ELSE loop_body(cond,
               IF check(cond.c, "RightParen") THEN Ret(advance(cond.c), loop_start)
               ELSE LET body_jump == emit_jump(cond.c, OpCode.Jump)
                        inc_start == Len(current_chunk(body_jump.c).code)
                        i1 == emit_opcode(expression(body_jump.c), OpCode.Pop)
                        i2 == consume(i1, "RightParen",
                                      "Expect ')' at the end of if statement")
                    IN Ret(patch_jump(emit_loop(i2, loop_start), body_jump.r),
                           inc_start))
      \* optional condition: r is end_loop, -1 for usize::MAX
      condition(c2) ==
        IF c2.abort THEN c2
        ELSE increment(Len(current_chunk(c2).code),
               IF check(c2, "Semicolon") THEN Ret(advance(c2), -1)
               ELSE LET j == emit_jump(consume_semicolon(expression(c2)),
                                       OpCode.JumpIfFalse)
                    IN Ret(emit_opcode(j.c, OpCode.Pop), j.r))
      \* optional init
      init(c1) ==
        condition(IF check(c1, "Semicolon") THEN advance(c1)
                  ELSE IF check(c1, "Var")
                       THEN Apply("variable_decl", advance(c1), FALSE)
                       ELSE Apply("expression_statement", c1, FALSE))
  IN init(consume(begin_scope(c), "LeftParen", "Expect '(' after if statement"))

RECURSIVE ParameterLoop(_, _)
\* the parameter loop of function: r is arity
ParameterLoop(c, arity) ==
  IF check(c, "Comma")
  THEN ParameterLoop(parse_and_define_parameter(advance(c)), arity + 1)
  ELSE Ret(c, arity)

RECURSIVE EmitUpValues(_, _, _)
\* up_values.iter().for_each(..): two bytes for every Filled descriptor, in index
\* order from i on
EmitUpValues(c, up_values, i) ==
  LET filled == {j \in DOMAIN up_values : j >= i /\ up_values[j].kind = "Filled"}
      next == CHOOSE j \in filled : \A k \in filled : j <= k
  IN IF filled = {} THEN c
     ELSE EmitUpValues(emit_byte(emit_byte(c, IF up_values[next].is_local THEN 1 ELSE 0),
                                 up_values[next].index), up_values, next + 1)

function(c) ==
  LET token == c.previous
      str_value == token_name(token)
      existing == find_entry_with_value(c.table, c.heap, str_value, hash(str_value))
      context == [CompilerContextInit EXCEPT
                    !.function = [new_function("Closure") EXCEPT !.name = existing]]
      c1 == begin_scope([c EXCEPT !.contexts = Append(@, context),
                                  !.current_context = @ + 1])
      \* the Closure instruction for the context popped off the contexts
      closure(inner, c8) ==
        EmitUpValues(emit_byte(emit_opcode(c8, OpCode.Closure),
                               AsU8(ConstantCount(current_chunk(c8)))),
                     inner.up_values, 0)
      pop_context(inner, c7) ==
        closure(inner, SetChunk(c7, add_constant(current_chunk(c7),
                                                 VObj(ObjFun(inner.function)))))
      end(c6) ==
        IF c6.abort THEN c6
        ELSE pop_context(c6.contexts[c6.current_context + 2],
               [c6 EXCEPT !.contexts = SubSeq(@, 1, c6.current_context + 1) \o
                                       SubSeq(@, c6.current_context + 3, Len(@))])
      body(c5) == IF c5.abort THEN c5 ELSE end(end_compiler(end_scope(c5)))
      arity(params, c3) ==
        [c3 EXCEPT !.contexts[c3.current_context + 1].function.arity = AsU8(params.r)]
      parameters(params) ==
        IF params.c.abort THEN params.c
        ELSE body(block(consume(consume(
               arity(params,
                     IF params.r >= 255
                     THEN error_at_current(params.c,
                                           "Can't have more than 255 parameters.")
                     ELSE params.c),
               "RightParen", "Expect ')' at the end of function params"),
               "LeftBrace", "Expect '{' at the beginning  of function body")))
      open(c2) ==
        parameters(IF ~check(c2, "RightParen")
                   THEN ParameterLoop(parse_and_define_parameter(c2), 1)
                   ELSE Ret(c2, 0))
  IN open(consume(c1, "LeftParen", "Expect '(' after function name"))

fun_decl(c) ==
  LET define(p, prev_token, c1) ==
        SetChunk(c1, write_index(current_chunk(c1), p.r, prev_token.line))
      defined(p, f) ==
        IF f.abort THEN f
        ELSE define(p, p.c.previous, emit_opcode(f, OpCode.DefineGlobalVariable))
      named(p) == defined(p, function(p.c))
  IN named(parse_variable(c))

statement(c) ==
  CASE check(c, "Print") -> print_stmt(advance(c))
    [] check(c, "If") -> if_stmt(advance(c))
    [] check(c, "Return") -> return_stmt(advance(c))
    [] check(c, "While") -> while_stmt(advance(c))
    [] check(c, "For") -> for_stmt(advance(c))
    [] check(c, "LeftBrace") ->
         LET c1 == block(begin_scope(advance(c)))
         IN IF c1.abort THEN c1 ELSE end_scope(c1)
    [] OTHER -> expression_statement(c)

RECURSIVE SynchronizeLoop(_)
SynchronizeLoop(c) ==
  IF check(c, "Eof") \/ check(c, "Semicolon") THEN c
  ELSE IF c.current.type \in {"Class", "Fun", "If", "While", "Var", "Print",
                              "For", "Return"}
       THEN c
       ELSE SynchronizeLoop(advance(c))

synchronize_error(c) == SynchronizeLoop([c EXCEPT !.panic_mode = FALSE])

declaration(c) ==
  LET recover(c1) == IF c1.panic_mode THEN synchronize_error(c1) ELSE c1
  IN recover(CASE check(c, "Fun") -> fun_decl(advance(c))
               [] check(c, "Var") -> variable_decl(advance(c))
               [] OTHER -> statement(c))

\* a ParseFn of the rule table, or a function of the descent, applied
Apply(fn, c, x) ==
  CASE fn = "GROUPING" -> grouping(c)
    [] fn = "BINARY" -> binary(c)
    [] fn = "UNARY" -> unary(c)
    [] fn = "NUMBER" -> number(c)
    [] fn = "LITERAL" -> literal(c)
    [] fn = "STRING" -> string(c, TRUE).c
    [] fn = "VARIABLE" -> variable(c, x)
    [] fn = "OR" -> or(c)
    [] fn = "AND" -> and(c)
    [] fn = "CALL" -> call(c)
    [] fn = "parse_precedence" -> parse_precedence(c, x)
    [] fn = "expression_statement" -> expression_statement(c)
    [] fn = "variable_decl" -> variable_decl(c)
    [] fn = "statement" -> statement(c)
    [] fn = "declaration" -> declaration(c)

RECURSIVE CompileLoop(_)
\* while !match_token(Eof) { declaration() }
CompileLoop(c) ==
  IF c.abort THEN c
  ELSE IF check(c, "Eof") THEN advance(c)
  ELSE CompileLoop(Apply("declaration", c, FALSE))

\* Compiler::compile: r.c.had_error and the script function
compile(c) ==
  LET script(c1) == Ret(c1, current_context(c1).function)
  IN script(end_compiler(CompileLoop(advance(c))))

\* ------------------------------------------------------------------------
\* vm.rs.  The VM state is the record vm of the variables below; mode is
\* "idle" between interpret calls, "running" inside run, "panic" once the
\* process has aborted; result is what the last interpret call returned.
\* current_frame is the local copy of the active frame that run works on.
\* ------------------------------------------------------------------------
NoValue == [tag |-> "None"]
NoFrame == [kind |-> "None"]
CallFrame(fn, ip, cf_stack_top) ==
  [kind |-> "Some", function |-> fn, ip |-> ip, cf_stack_top |-> cf_stack_top]

VMInit ==
  [stack |-> [i \in 0..(STACK_MAX - 1) |-> NoValue],
   stack_top |-> 0,
   table |-> TableInit(TABLE_INIT_CAPACITY),
   globals |-> TableInit(TABLE_INIT_CAPACITY),
   call_frames |-> [i \in 0..(FRAMES_MAX - 1) |-> NoFrame],
   frame_count |-> 0,
   current_frame |-> NoFrame,
   heap |-> <<>>,
   out |-> <<>>,
   mode |-> "idle",
   result |-> "None"]

Panicked(vm) == [vm EXCEPT !.mode = "panic", !.current_frame = NoFrame]

\* run returns: its local current_frame is dropped
Halt(vm, interpret_result) ==
  [vm EXCEPT !.mode = "idle", !.result = interpret_result, !.current_frame = NoFrame]

\* the slot peek(distance) reads holds a value (else the index or the unwrap panics)
CanPeek(vm, distance) ==
  /\ vm.stack_top - 1 - distance \in DOMAIN vm.stack
  /\ vm.stack[vm.stack_top - 1 - distance] # NoValue

peek(vm, distance) == vm.stack[vm.stack_top - 1 - distance]

push(vm, value) ==
  IF vm.mode = "panic" THEN vm
  ELSE IF vm.stack_top \notin DOMAIN vm.stack THEN Panicked(vm)
  ELSE [vm EXCEPT !.stack[vm.stack_top] = value, !.stack_top = @ + 1]

\* pop: the VM afterwards; the value popped is peek(vm, 0)
pop(vm) ==
  IF vm.mode = "panic" THEN vm
  ELSE IF ~CanPeek(vm, 0) THEN Panicked(vm)
  ELSE [vm EXCEPT !.stack_top = @ - 1]

is_falsey(value) ==
  value.tag = "Missing" \/ (value.tag = "Boolean" /\ ~value.b)

is_equal(left, right) == ValueEq(left, right)

\* the code is 0-based in the source: code.get(ip) is code[ip + 1]
CanReadByte(frame) == frame.ip + 1 \in DOMAIN frame.function.chunk.code

ReadByte(frame) == frame.function.chunk.code[frame.ip + 1]

Advance(vm, n) == [vm EXCEPT !.current_frame.ip = @ + n]

Constants(vm) == vm.current_frame.function.chunk.constants

\* Into<FatPointer> for Obj: a string's pointer, else an empty string at the
\* dangling pointer of "".to_string() (kept as pointer -1)
ObjToFatPointer(obj) ==
  IF obj.otype = "Str" THEN obj.fp ELSE FatPointer(-1, 0, <<0, 0>>)

\* a faulty create_call_frame whose frame starts one slot above the callee (C5
\* must notice it)
create_call_frame_above_callee(vm, fn, arg_count, checked) ==
  LET cf_stack_top == IF vm.stack_top > 0 THEN vm.stack_top - arg_count ELSE 0
  IN IF vm.mode = "panic" THEN vm
     ELSE IF vm.frame_count \notin DOMAIN vm.call_frames THEN Panicked(vm)
     ELSE [vm EXCEPT !.call_frames[vm.frame_count] = CallFrame(fn, 0, cf_stack_top),
                     !.frame_count = @ + 1]

create_call_frame(vm, fn, arg_count, checked) ==
  LET cf_stack_top == IF vm.stack_top > 0 THEN vm.stack_top - arg_count - 1 ELSE 0
  IN IF vm.mode = "panic" THEN vm
     ELSE IF cf_stack_top < 0 /\ checked THEN Panicked(vm)
     ELSE IF vm.frame_count \notin DOMAIN vm.call_frames THEN Panicked(vm)
     ELSE [vm EXCEPT !.call_frames[vm.frame_count] = CallFrame(fn, 0, cf_stack_top),
                     !.frame_count = @ + 1]

\* the first statement of run and the reload after Call and Return
LoadFrame(vm) ==
  IF vm.mode = "panic" THEN vm
  ELSE IF vm.frame_count - 1 \notin DOMAIN vm.call_frames
          \/ vm.call_frames[vm.frame_count - 1] = NoFrame
       THEN Panicked(vm)
       ELSE [vm EXCEPT !.current_frame = vm.call_frames[vm.frame_count - 1]]

\* VM::interpret up to the call of run
\* a faulty interpret that runs what was compiled although an error was reported
\* (C14 must notice it)
interpret_despite_errors(vm, toks, ub, checked) ==
  LET run(vm2) ==
        LoadFrame(IF vm2.mode = "panic" THEN vm2
                  ELSE [vm2 EXCEPT !.mode = "running", !.result = "None"])
      compiled(r, vm1) ==
        IF r.c.abort THEN Panicked(vm1)
        ELSE run(create_call_frame(push(vm1, VObj(ObjClosure(ObjFun(r.r)))),
                                   r.r, 0, checked))
      result(r) == compiled(r, [vm EXCEPT !.table = r.c.table, !.heap = r.c.heap])
  IN result(compile(CompilerInit(toks, vm.table, vm.heap, ub, checked)))

interpret(vm, toks, ub, checked) ==
  LET run(vm2) ==
        LoadFrame(IF vm2.mode = "panic" THEN vm2
                  ELSE [vm2 EXCEPT !.mode = "running", !.result = "None"])
      compiled(r, vm1) ==
        IF r.c.abort THEN Panicked(vm1)
        ELSE IF r.c.had_error THEN Halt(vm1, "CompileError")
        ELSE run(create_call_frame(push(vm1, VObj(ObjClosure(ObjFun(r.r)))),
                                   r.r, 0, checked))
      result(r) == compiled(r, [vm EXCEPT !.table = r.c.table, !.heap = r.c.heap])
  IN result(compile(CompilerInit(toks, vm.table, vm.heap, ub, checked)))

\* The handlers of run's match, each on the VM after READ_BYTE has fetched the
\* opcode (current_frame.ip is past it).

return_op(vm) ==
  LET result == peek(vm, 0)
      vm1 == pop(vm)
      vm2 == [vm1 EXCEPT !.frame_count = @ - 1]
  IN IF vm1.mode = "panic" THEN vm1
     ELSE IF vm2.frame_count = 0 THEN Halt(vm2, "Ok")
     ELSE LoadFrame(push([vm2 EXCEPT !.stack_top = vm.current_frame.cf_stack_top],
                         result))

ExecNegate(vm) ==
  IF ~CanPeek(vm, 0) THEN Panicked(vm)
  ELSE IF ~is_number(peek(vm, 0)) THEN Halt(vm, "RuntimeError")
  ELSE push(pop(vm), VFraction(-1 * peek(vm, 0).n, peek(vm, 0).d))

\* the f64 operators of BINARY_OP on fractions
BinaryResult(op, l, r) ==
  CASE op = "+" -> VFraction((l.n * r.d) + (r.n * l.d), l.d * r.d)
    [] op = "-" -> VFraction((l.n * r.d) - (r.n * l.d), l.d * r.d)
    [] op = "*" -> VFraction(l.n * r.n, l.d * r.d)
    [] op = "/" -> VFraction(l.n * r.d, l.d * r.n)
    [] op = ">" -> VBoolean((l.n * r.d) > (r.n * l.d))
    [] op = "<" -> VBoolean((l.n * r.d) < (r.n * l.d))

BINARY_OP(vm, op) ==
  IF ~CanPeek(vm, 0) \/ ~CanPeek(vm, 1) THEN Panicked(vm)
  ELSE IF ~is_number(peek(vm, 0)) \/ ~is_number(peek(vm, 1))
       THEN Halt(vm, "RuntimeError")
       ELSE push(pop(pop(vm)), BinaryResult(op, peek(vm, 1), peek(vm, 0)))

\* VM::concat and the push of its result
concat(vm, ub) ==
  LET second == ObjToFatPointer(peek(vm, 0).obj)
      first == ObjToFatPointer(peek(vm, 1).obj)
      ptr == allocate(vm.heap)
      heap1 == copy(vm.heap, read_string(vm.heap, first.ptr, first.size), ptr, 0, ub)
      heap2 == copy(heap1, read_string(vm.heap, second.ptr, second.size), ptr,
                    first.size, ub)
      hash_value == hash(read_string(heap2, ptr, first.size + second.size))
      combined == VObj(ObjStr(FatPointer(ptr, first.size + second.size, hash_value)))
  IN push([pop(pop(vm)) EXCEPT !.heap = heap2], combined)

ExecAdd(vm, ub) ==
  IF ~CanPeek(vm, 0) THEN Panicked(vm)
  ELSE LET value == peek(vm, 0)
       IN CASE value.tag = "Obj" ->
                 IF value.obj.otype = "Str"
                 THEN IF ~CanPeek(vm, 1) THEN Panicked(vm)
                      ELSE IF is_obj_string(peek(vm, 1)) THEN concat(vm, ub)
                      ELSE vm
                 ELSE Halt(vm, "RuntimeError")
            [] value.tag = "Number" -> BINARY_OP(vm, "+")
            [] OTHER -> Halt(vm, "Ok")

ExecEqual(vm) ==
  IF ~CanPeek(vm, 0) \/ ~CanPeek(vm, 1) THEN Panicked(vm)
  ELSE push(pop(pop(vm)), VBoolean(is_equal(peek(vm, 0), peek(vm, 1))))

ExecNot(vm) ==
  IF ~CanPeek(vm, 0) THEN Panicked(vm)
  ELSE push(pop(vm), VBoolean(is_falsey(peek(vm, 0))))

\* READ_CONSTANT and the unwrap of its result: the index byte, then the constant
ExecConstant(vm) ==
  IF ~CanReadByte(vm.current_frame) THEN Panicked(vm)
  ELSE LET index == ReadByte(vm.current_frame)
       IN IF index + 1 \notin DOMAIN Constants(vm) THEN Panicked(vm)
          ELSE push(Advance(vm, 1), Constants(vm)[index + 1])

RECURSIVE FromNeBytes(_, _, _)
\* usize::from_ne_bytes of the 8 bytes at code[ip..ip + 8] (little-endian target);
\* -1 when more than the low three bytes are set (an index no pool reaches)
FromNeBytes(code, ip, n) ==
  IF n = 0 THEN 0
  ELSE LET rest == FromNeBytes(code, ip + 1, n - 1)
       IN IF rest = -1 \/ (n <= 5 /\ code[ip + 1] # 0) THEN -1
          ELSE code[ip + 1] + 256 * rest

ExecConstantLong(vm) ==
  LET frame == vm.current_frame
      code == frame.function.chunk.code
  IN IF frame.ip + 8 > Len(code) THEN Panicked(vm)
     ELSE LET index == FromNeBytes(code, frame.ip, 8)
          IN IF index + 1 \notin DOMAIN Constants(vm) \/ index = -1 THEN Panicked(vm)
             ELSE push(Advance(vm, 8), Constants(vm)[index + 1])

\* READ_CONSTANT(..).unwrap() followed by Into::<FatPointer>::into
CanReadName(vm) ==
  /\ CanReadByte(vm.current_frame)
  /\ ReadByte(vm.current_frame) + 1 \in DOMAIN Constants(vm)
  /\ Constants(vm)[ReadByte(vm.current_frame) + 1].tag = "Obj"

ReadName(vm) == ObjToFatPointer(Constants(vm)[ReadByte(vm.current_frame) + 1].obj)

ExecDefineGlobal(vm) ==
  IF ~CanReadName(vm) \/ ~CanPeek(vm, 0) THEN Panicked(vm)
  ELSE LET vm1 == Advance(vm, 1)
       IN pop([vm1 EXCEPT !.globals = insert(vm.globals, ReadName(vm), peek(vm, 0))])

\* push_obj_value_to_stack with get_variable_value
push_obj_value_to_stack(vm, variable_name) ==
  IF get_panics(vm.globals, variable_name) THEN Panicked(vm)
  ELSE LET val == get(vm.globals, variable_name)
       IN IF val.tag = "Obj" /\ val.obj.otype = "Fun" /\ val.obj.fun.name = NoPointer
          THEN Panicked(vm)
          ELSE push(vm, val)

ExecGetGlobal(vm) ==
  IF ~CanReadName(vm) THEN Panicked(vm)
  ELSE push_obj_value_to_stack(Advance(vm, 1), ReadName(vm))

set_global_variable(vm, variable_name) ==
  IF ~CanPeek(vm, 0) THEN Panicked(vm)
  ELSE LET vm1 == [vm EXCEPT !.globals = insert(vm.globals, variable_name, peek(vm, 0))]
       IN IF ~insert_result(vm.globals, variable_name)
          THEN Halt([vm1 EXCEPT !.globals = delete(vm1.globals, variable_name)],
                    "RuntimeError")
          ELSE vm1

ExecSetGlobal(vm) ==
  IF ~CanReadName(vm) THEN Panicked(vm)
  ELSE set_global_variable(Advance(vm, 1), ReadName(vm))

ExecGetLocal(vm) ==
  IF ~CanReadByte(vm.current_frame) THEN Panicked(vm)
  ELSE LET slot == vm.current_frame.cf_stack_top + ReadByte(vm.current_frame)
       IN IF slot \notin DOMAIN vm.stack \/ vm.stack[slot] = NoValue THEN Panicked(vm)
          ELSE push(Advance(vm, 1), vm.stack[slot])

ExecSetLocal(vm) ==
  IF ~CanReadByte(vm.current_frame) THEN Panicked(vm)
  ELSE LET slot == vm.current_frame.cf_stack_top + ReadByte(vm.current_frame)
       IN IF ~CanPeek(vm, 0) \/ slot \notin DOMAIN vm.stack THEN Panicked(vm)
          ELSE [Advance(vm, 1) EXCEPT !.stack[slot] = peek(vm, 0)]


ExecClosure(vm) ==
  IF ~CanReadName(vm) THEN Panicked(vm)
  ELSE LET function_obj == Constants(vm)[ReadByte(vm.current_frame) + 1].obj
       IN push(Advance(vm, 1), VObj(ObjClosure(function_obj)))

\* execute_function: the VM after it, with mode "idle" when it returned false
execute_function(vm, callee, arg_count, checked) ==
  IF is_obj(callee) /\ callee.obj.otype = "Fun"
  THEN create_call_frame(vm, callee.obj.fun, arg_count, checked)
  ELSE IF is_obj(callee) /\ callee.obj.otype = "Closure"
  THEN IF callee.obj.inner.otype # "Fun" THEN Panicked(vm)
       ELSE create_call_frame(vm, callee.obj.inner.fun, arg_count, checked)
  ELSE Halt(vm, "RuntimeError")

ExecCall(vm, checked) ==
  IF ~CanReadByte(vm.current_frame) THEN Panicked(vm)
  ELSE LET arg_count == ReadByte(vm.current_frame)
           vm1 == Advance(vm, 1)
           old_frame == vm1.current_frame
       IN IF ~CanPeek(vm1, arg_count) THEN Panicked(vm1)
          ELSE LET vm2 == execute_function(vm1, peek(vm1, arg_count), arg_count,
                                           checked)
               IN IF vm2.mode # "running" THEN vm2
                  ELSE [LoadFrame(vm2) EXCEPT
                          !.call_frames[vm2.frame_count - 2] = old_frame]

\* update_offset; an ip that wrapped below zero stays negative (no byte is there)
update_offset(vm, add, checked) ==
  LET frame == vm.current_frame
      code == frame.function.chunk.code
  IN IF frame.ip + 2 \notin DOMAIN code THEN Panicked(vm)
     ELSE LET offset == code[frame.ip + 2] + (256 * code[frame.ip + 1])
              ip == IF add THEN frame.ip + 2 + offset ELSE frame.ip + 2 - offset
          IN IF ip < 0 /\ checked THEN Panicked(vm)
             ELSE [vm EXCEPT !.current_frame.ip = ip]

ExecJumpIfFalse(vm, checked) ==
  IF ~CanPeek(vm, 0) THEN Panicked(vm)
  ELSE IF is_falsey(peek(vm, 0)) THEN update_offset(vm, TRUE, checked)
  ELSE Advance(vm, 2)

ExecPrint(vm) ==
  IF ~CanPeek(vm, 0) THEN Panicked(vm)
  ELSE [pop(vm) EXCEPT !.out = Append(@, peek(vm, 0))]

\* the default arm: the frame is stored back and run returns InterpretOk
ExecDefault(vm) ==
  IF vm.frame_count - 1 \notin DOMAIN vm.call_frames THEN Panicked(vm)
  ELSE Halt([vm EXCEPT !.call_frames[vm.frame_count - 1] = vm.current_frame], "Ok")


\* ------------------------------------------------------------------------
\* The state machine: one VM (main.rs keeps one VM for a whole REPL session),
\* interpret called on it with sources of the library Sources, and run's
\* dispatch loop taken one instruction at a time.
\* ------------------------------------------------------------------------
VARIABLES stack, stack_top, table, globals, call_frames, frame_count,
          current_frame, heap, out, mode, result, checked, ub, sources,
          scanner, tokens, scan_mode,
          map, bindings, chunk, pending, returned, compiler

vars == <<stack, stack_top, table, globals, call_frames, frame_count,
          current_frame, heap, out, mode, result, checked, ub, sources,
          scanner, tokens, scan_mode, map, bindings, chunk, pending, returned,
          compiler>>

\* the variables of the VM, of the scanner on its own, and of a Table and a
\* Chunk used on their own (as the unit tests of hash_map.rs use a Table):
\*   map       the Table
\*   bindings  the value last stored for each key and not deleted since
\*   chunk     the Chunk the compiler is writing
\*   pending   the operand offsets of the jumps emit_jump has emitted and
\*             patch_jump has not patched yet, and the loop starts recorded
\*   returned  the last call on the Table or the Chunk and what it returned
\*   compiler  the Compiler while compile is taken one declaration at a time
vm_vars == <<stack, stack_top, table, globals, call_frames, frame_count,
             current_frame, heap, out, mode, result, checked, ub, sources>>
scan_vars == <<scanner, tokens, scan_mode>>
unit_vars == <<map, bindings, chunk, pending, returned, compiler>>

\* the VM as one record
VM ==
  [stack |-> stack, stack_top |-> stack_top, table |-> table, globals |-> globals,
   call_frames |-> call_frames, frame_count |-> frame_count,
   current_frame |-> current_frame, heap |-> heap, out |-> out, mode |-> mode,
   result |-> result]

Set(vm) ==
  /\ stack' = vm.stack
  /\ stack_top' = vm.stack_top
  /\ table' = vm.table
  /\ globals' = vm.globals
  /\ call_frames' = vm.call_frames
  /\ frame_count' = vm.frame_count
  /\ current_frame' = vm.current_frame
  /\ heap' = vm.heap
  /\ out' = vm.out
  /\ mode' = vm.mode
  /\ result' = vm.result

\* VM::init; the build (overflow checks on or off) and what a write past the end
\* of an allocation does are fixed for the life of the process.  compile takes
\* the tokens of a source from Sources, so the scanner is not stepped here.
\* no Compiler has been constructed
NoCompiler == [toks |-> <<>>]

\* no Table, no Chunk and no Compiler is used on its own
UnitInit ==
  /\ map = TableInit(1)
  /\ bindings = <<>>
  /\ chunk = ChunkInit
  /\ pending = <<>>
  /\ returned = [op |-> "none", aborted |-> FALSE]
  /\ compiler = NoCompiler

Init ==
  /\ stack = VMInit.stack
  /\ stack_top = VMInit.stack_top
  /\ table = VMInit.table
  /\ globals = VMInit.globals
  /\ call_frames = VMInit.call_frames
  /\ frame_count = VMInit.frame_count
  /\ current_frame = VMInit.current_frame
  /\ heap = VMInit.heap
  /\ out = VMInit.out
  /\ mode = VMInit.mode
  /\ result = VMInit.result
  /\ checked \in BOOLEAN
  /\ ub \in {"intact", "clobbered"}
  /\ sources = <<>>
  /\ scanner = ScannerInit(0, 0, <<>>)
  /\ tokens = <<>>
  /\ scan_mode = "ready"
  /\ UnitInit


\* ------------------------------------------------------------------------
\* The sources given to interpret, as the tokens scanner.rs returns for them
\* (type, the bytes of the lexeme, line).  Each top-level statement is on a
\* line of its own, so the line of a byte of the script's chunk is the number
\* of the statement it was compiled from.
\* ------------------------------------------------------------------------
\* arithmetic, comparison and equality on numbers
\*     print -(6 - 3) * 2 < 4 == !(1 > 2);
SrcArith ==
  <<Token("Print", <<112, 114, 105, 110, 116>>, 1), Token("Minus", <<45>>, 1),
    Token("LeftParen", <<40>>, 1), Token("Number", <<54>>, 1),
    Token("Minus", <<45>>, 1), Token("Number", <<51>>, 1),
    Token("RightParen", <<41>>, 1), Token("Star", <<42>>, 1),
    Token("Number", <<50>>, 1), Token("Less", <<60>>, 1), Token("Number", <<52>>, 1),
    Token("EqualEqual", <<61, 61>>, 1), Token("Bang", <<33>>, 1),
    Token("LeftParen", <<40>>, 1), Token("Number", <<49>>, 1),
    Token("Greater", <<62>>, 1), Token("Number", <<50>>, 1),
    Token("RightParen", <<41>>, 1), Token("Semicolon", <<59>>, 1)>>

\* a global defined, assigned and read
\*     var a = 1;
\*     a = 2;
\*     print a;
SrcGlobals ==
  <<Token("Var", <<118, 97, 114>>, 1), Token("Identifier", <<97>>, 1),
    Token("Equal", <<61>>, 1), Token("Number", <<49>>, 1),
    Token("Semicolon", <<59>>, 1), Token("Identifier", <<97>>, 2),
    Token("Equal", <<61>>, 2), Token("Number", <<50>>, 2),
    Token("Semicolon", <<59>>, 2), Token("Print", <<112, 114, 105, 110, 116>>, 3),
    Token("Identifier", <<97>>, 3), Token("Semicolon", <<59>>, 3)>>

\* assignment to a global that was never defined
\*     x = 1;
\*     print 2;
SrcSetUndefined ==
  <<Token("Identifier", <<120>>, 1), Token("Equal", <<61>>, 1),
    Token("Number", <<49>>, 1), Token("Semicolon", <<59>>, 1),
    Token("Print", <<112, 114, 105, 110, 116>>, 2), Token("Number", <<50>>, 2),
    Token("Semicolon", <<59>>, 2)>>

\* read of a global that was never defined
\*     print x;
\*     print 2;
SrcGetUndefined ==
  <<Token("Print", <<112, 114, 105, 110, 116>>, 1), Token("Identifier", <<120>>, 1),
    Token("Semicolon", <<59>>, 1), Token("Print", <<112, 114, 105, 110, 116>>, 2),
    Token("Number", <<50>>, 2), Token("Semicolon", <<59>>, 2)>>

\* a closure over a local of the enclosing function
\*     fun make() { var x = 0; fun inc() { x = x + 1; return x; } return inc; }
\*     var c = make();
\*     print c();
\*     print c();
SrcCounter ==
  <<Token("Fun", <<102, 117, 110>>, 1), Token("Identifier", <<109, 97, 107, 101>>, 1),
    Token("LeftParen", <<40>>, 1), Token("RightParen", <<41>>, 1),
    Token("LeftBrace", <<123>>, 1), Token("Var", <<118, 97, 114>>, 1),
    Token("Identifier", <<120>>, 1), Token("Equal", <<61>>, 1),
    Token("Number", <<48>>, 1), Token("Semicolon", <<59>>, 1),
    Token("Fun", <<102, 117, 110>>, 1), Token("Identifier", <<105, 110, 99>>, 1),
    Token("LeftParen", <<40>>, 1), Token("RightParen", <<41>>, 1),
    Token("LeftBrace", <<123>>, 1), Token("Identifier", <<120>>, 1),
    Token("Equal", <<61>>, 1), Token("Identifier", <<120>>, 1),
    Token("Plus", <<43>>, 1), Token("Number", <<49>>, 1), Token("Semicolon", <<59>>, 1),
    Token("Return", <<114, 101, 116, 117, 114, 110>>, 1),
    Token("Identifier", <<120>>, 1), Token("Semicolon", <<59>>, 1),
    Token("RightBrace", <<125>>, 1),
    Token("Return", <<114, 101, 116, 117, 114, 110>>, 1),
    Token("Identifier", <<105, 110, 99>>, 1), Token("Semicolon", <<59>>, 1),
    Token("RightBrace", <<125>>, 1), Token("Var", <<118, 97, 114>>, 2),
    Token("Identifier", <<99>>, 2), Token("Equal", <<61>>, 2),
    Token("Identifier", <<109, 97, 107, 101>>, 2), Token("LeftParen", <<40>>, 2),
    Token("RightParen", <<41>>, 2), Token("Semicolon", <<59>>, 2),
    Token("Print", <<112, 114, 105, 110, 116>>, 3), Token("Identifier", <<99>>, 3),
    Token("LeftParen", <<40>>, 3), Token("RightParen", <<41>>, 3),
    Token("Semicolon", <<59>>, 3), Token("Print", <<112, 114, 105, 110, 116>>, 4),
    Token("Identifier", <<99>>, 4), Token("LeftParen", <<40>>, 4),
    Token("RightParen", <<41>>, 4), Token("Semicolon", <<59>>, 4)>>

\* a call with fewer arguments than parameters
\*     fun f(a) { return a; }
\*     print f();
\*     print 2;
SrcArity ==
  <<Token("Fun", <<102, 117, 110>>, 1), Token("Identifier", <<102>>, 1),
    Token("LeftParen", <<40>>, 1), Token("Identifier", <<97>>, 1),
    Token("RightParen", <<41>>, 1), Token("LeftBrace", <<123>>, 1),
    Token("Return", <<114, 101, 116, 117, 114, 110>>, 1),
    Token("Identifier", <<97>>, 1), Token("Semicolon", <<59>>, 1),
    Token("RightBrace", <<125>>, 1), Token("Print", <<112, 114, 105, 110, 116>>, 2),
    Token("Identifier", <<102>>, 2), Token("LeftParen", <<40>>, 2),
    Token("RightParen", <<41>>, 2), Token("Semicolon", <<59>>, 2),
    Token("Print", <<112, 114, 105, 110, 116>>, 3), Token("Number", <<50>>, 3),
    Token("Semicolon", <<59>>, 3)>>

\* a function that calls itself through its parameter
\*     fun r(f, n) { if (n) return n; return f(f, true); }
\*     print r(r, false);
SrcRecursion ==
  <<Token("Fun", <<102, 117, 110>>, 1), Token("Identifier", <<114>>, 1),
    Token("LeftParen", <<40>>, 1), Token("Identifier", <<102>>, 1),
    Token("Comma", <<44>>, 1), Token("Identifier", <<110>>, 1),
    Token("RightParen", <<41>>, 1), Token("LeftBrace", <<123>>, 1),
    Token("If", <<105, 102>>, 1), Token("LeftParen", <<40>>, 1),
    Token("Identifier", <<110>>, 1), Token("RightParen", <<41>>, 1),
    Token("Return", <<114, 101, 116, 117, 114, 110>>, 1),
    Token("Identifier", <<110>>, 1), Token("Semicolon", <<59>>, 1),
    Token("Return", <<114, 101, 116, 117, 114, 110>>, 1),
    Token("Identifier", <<102>>, 1), Token("LeftParen", <<40>>, 1),
    Token("Identifier", <<102>>, 1), Token("Comma", <<44>>, 1),
    Token("True", <<116, 114, 117, 101>>, 1), Token("RightParen", <<41>>, 1),
    Token("Semicolon", <<59>>, 1), Token("RightBrace", <<125>>, 1),
    Token("Print", <<112, 114, 105, 110, 116>>, 2), Token("Identifier", <<114>>, 2),
    Token("LeftParen", <<40>>, 2), Token("Identifier", <<114>>, 2),
    Token("Comma", <<44>>, 2), Token("False", <<102, 97, 108, 115, 101>>, 2),
    Token("RightParen", <<41>>, 2), Token("Semicolon", <<59>>, 2)>>

\* Add with a boolean on top of the stack
\*     print 1 + true;
\*     print 2;
SrcAddBool ==
  <<Token("Print", <<112, 114, 105, 110, 116>>, 1), Token("Number", <<49>>, 1),
    Token("Plus", <<43>>, 1), Token("True", <<116, 114, 117, 101>>, 1),
    Token("Semicolon", <<59>>, 1), Token("Print", <<112, 114, 105, 110, 116>>, 2),
    Token("Number", <<50>>, 2), Token("Semicolon", <<59>>, 2)>>

\* Add with a string on top of a number
\*     print 1 + "a";
SrcAddString ==
  <<Token("Print", <<112, 114, 105, 110, 116>>, 1), Token("Number", <<49>>, 1),
    Token("Plus", <<43>>, 1), Token("String", <<34, 97, 34>>, 1),
    Token("Semicolon", <<59>>, 1)>>

\* Less with a boolean operand
\*     print 1 < true;
\*     print 2;
SrcLessBool ==
  <<Token("Print", <<112, 114, 105, 110, 116>>, 1), Token("Number", <<49>>, 1),
    Token("Less", <<60>>, 1), Token("True", <<116, 114, 117, 101>>, 1),
    Token("Semicolon", <<59>>, 1), Token("Print", <<112, 114, 105, 110, 116>>, 2),
    Token("Number", <<50>>, 2), Token("Semicolon", <<59>>, 2)>>

\* a block after a block that declared more locals
\*     { var a; var b; }
\*     { var c; }
\*     print 1;
SrcBlocks ==
  <<Token("LeftBrace", <<123>>, 1), Token("Var", <<118, 97, 114>>, 1),
    Token("Identifier", <<97>>, 1), Token("Semicolon", <<59>>, 1),
    Token("Var", <<118, 97, 114>>, 1), Token("Identifier", <<98>>, 1),
    Token("Semicolon", <<59>>, 1), Token("RightBrace", <<125>>, 1),
    Token("LeftBrace", <<123>>, 2), Token("Var", <<118, 97, 114>>, 2),
    Token("Identifier", <<99>>, 2), Token("Semicolon", <<59>>, 2),
    Token("RightBrace", <<125>>, 2), Token("Print", <<112, 114, 105, 110, 116>>, 3),
    Token("Number", <<49>>, 3), Token("Semicolon", <<59>>, 3)>>

\* a local of an enclosing block read in an inner block
\*     { var a = 1; { print a; } }
SrcNested ==
  <<Token("LeftBrace", <<123>>, 1), Token("Var", <<118, 97, 114>>, 1),
    Token("Identifier", <<97>>, 1), Token("Equal", <<61>>, 1),
    Token("Number", <<49>>, 1), Token("Semicolon", <<59>>, 1),
    Token("LeftBrace", <<123>>, 1), Token("Print", <<112, 114, 105, 110, 116>>, 1),
    Token("Identifier", <<97>>, 1), Token("Semicolon", <<59>>, 1),
    Token("RightBrace", <<125>>, 1), Token("RightBrace", <<125>>, 1)>>

\* the same string literal twice
\*     print "ab" == "ab";
SrcIntern ==
  <<Token("Print", <<112, 114, 105, 110, 116>>, 1),
    Token("String", <<34, 97, 98, 34>>, 1), Token("EqualEqual", <<61, 61>>, 1),
    Token("String", <<34, 97, 98, 34>>, 1), Token("Semicolon", <<59>>, 1)>>

\* the same literal of 25 bytes (quotes included) twice
\*     print "abcdefghijklmnopqrstuvw" == "abcdefghijklmnopqrstuvw";
SrcLongString ==
  <<Token("Print", <<112, 114, 105, 110, 116>>, 1),
    Token("String", <<34, 97, 98, 99, 100, 101, 102, 103, 104, 105, 106, 107, 108, 109, 110, 111, 112, 113, 114, 115, 116, 117, 118, 119, 34>>, 1),
    Token("EqualEqual", <<61, 61>>, 1),
    Token("String", <<34, 97, 98, 99, 100, 101, 102, 103, 104, 105, 106, 107, 108, 109, 110, 111, 112, 113, 114, 115, 116, 117, 118, 119, 34>>, 1),
    Token("Semicolon", <<59>>, 1)>>

\* the same concatenation twice
\*     print "a" + "b" == "a" + "b";
SrcConcat ==
  <<Token("Print", <<112, 114, 105, 110, 116>>, 1), Token("String", <<34, 97, 34>>, 1),
    Token("Plus", <<43>>, 1), Token("String", <<34, 98, 34>>, 1),
    Token("EqualEqual", <<61, 61>>, 1), Token("String", <<34, 97, 34>>, 1),
    Token("Plus", <<43>>, 1), Token("String", <<34, 98, 34>>, 1),
    Token("Semicolon", <<59>>, 1)>>

\* a for loop with a local loop variable
\*     for (var i = 0; i < 1; i = i + 1) print i;
\*     print 3;
SrcFor ==
  <<Token("For", <<102, 111, 114>>, 1), Token("LeftParen", <<40>>, 1),
    Token("Var", <<118, 97, 114>>, 1), Token("Identifier", <<105>>, 1),
    Token("Equal", <<61>>, 1), Token("Number", <<48>>, 1),
    Token("Semicolon", <<59>>, 1), Token("Identifier", <<105>>, 1),
    Token("Less", <<60>>, 1), Token("Number", <<49>>, 1), Token("Semicolon", <<59>>, 1),
    Token("Identifier", <<105>>, 1), Token("Equal", <<61>>, 1),
    Token("Identifier", <<105>>, 1), Token("Plus", <<43>>, 1),
    Token("Number", <<49>>, 1), Token("RightParen", <<41>>, 1),
    Token("Print", <<112, 114, 105, 110, 116>>, 1), Token("Identifier", <<105>>, 1),
    Token("Semicolon", <<59>>, 1), Token("Print", <<112, 114, 105, 110, 116>>, 2),
    Token("Number", <<51>>, 2), Token("Semicolon", <<59>>, 2)>>

\* a while loop on a global
\*     var n = 0;
\*     while (n < 1) n = n + 1;
\*     print n;
SrcWhile ==
  <<Token("Var", <<118, 97, 114>>, 1), Token("Identifier", <<110>>, 1),
    Token("Equal", <<61>>, 1), Token("Number", <<48>>, 1),
    Token("Semicolon", <<59>>, 1), Token("While", <<119, 104, 105, 108, 101>>, 2),
    Token("LeftParen", <<40>>, 2), Token("Identifier", <<110>>, 2),
    Token("Less", <<60>>, 2), Token("Number", <<49>>, 2),
    Token("RightParen", <<41>>, 2), Token("Identifier", <<110>>, 2),
    Token("Equal", <<61>>, 2), Token("Identifier", <<110>>, 2),
    Token("Plus", <<43>>, 2), Token("Number", <<49>>, 2), Token("Semicolon", <<59>>, 2),
    Token("Print", <<112, 114, 105, 110, 116>>, 3), Token("Identifier", <<110>>, 3),
    Token("Semicolon", <<59>>, 3)>>

\* if with else
\*     if (nil) print 1; else print 2;
\*     print 3;
SrcIf ==
  <<Token("If", <<105, 102>>, 1), Token("LeftParen", <<40>>, 1),
    Token("Nil", <<110, 105, 108>>, 1), Token("RightParen", <<41>>, 1),
    Token("Print", <<112, 114, 105, 110, 116>>, 1), Token("Number", <<49>>, 1),
    Token("Semicolon", <<59>>, 1), Token("Else", <<101, 108, 115, 101>>, 1),
    Token("Print", <<112, 114, 105, 110, 116>>, 1), Token("Number", <<50>>, 1),
    Token("Semicolon", <<59>>, 1), Token("Print", <<112, 114, 105, 110, 116>>, 2),
    Token("Number", <<51>>, 2), Token("Semicolon", <<59>>, 2)>>

\* a statement without its expression
\*     print ;
SrcSyntaxError ==
  <<Token("Print", <<112, 114, 105, 110, 116>>, 1), Token("Semicolon", <<59>>, 1)>>

\* equality of values with the same and with different tags, and of a function
\* with itself
\*     fun f() { }
\*     print f == f;
\*     print 0 == false;
\*     print nil == nil;
\*     print "a" == "a";
\*     print nil == false;
SrcEquality ==
  <<Token("Fun", <<102, 117, 110>>, 1), Token("Identifier", <<102>>, 1),
    Token("LeftParen", <<40>>, 1), Token("RightParen", <<41>>, 1),
    Token("LeftBrace", <<123>>, 1), Token("RightBrace", <<125>>, 1),
    Token("Print", <<112, 114, 105, 110, 116>>, 2), Token("Identifier", <<102>>, 2),
    Token("EqualEqual", <<61, 61>>, 2), Token("Identifier", <<102>>, 2),
    Token("Semicolon", <<59>>, 2), Token("Print", <<112, 114, 105, 110, 116>>, 3),
    Token("Number", <<48>>, 3), Token("EqualEqual", <<61, 61>>, 3),
    Token("False", <<102, 97, 108, 115, 101>>, 3), Token("Semicolon", <<59>>, 3),
    Token("Print", <<112, 114, 105, 110, 116>>, 4), Token("Nil", <<110, 105, 108>>, 4),
    Token("EqualEqual", <<61, 61>>, 4), Token("Nil", <<110, 105, 108>>, 4),
    Token("Semicolon", <<59>>, 4), Token("Print", <<112, 114, 105, 110, 116>>, 5),
    Token("String", <<34, 97, 34>>, 5), Token("EqualEqual", <<61, 61>>, 5),
    Token("String", <<34, 97, 34>>, 5), Token("Semicolon", <<59>>, 5),
    Token("Print", <<112, 114, 105, 110, 116>>, 6), Token("Nil", <<110, 105, 108>>, 6),
    Token("EqualEqual", <<61, 61>>, 6), Token("False", <<102, 97, 108, 115, 101>>, 6),
    Token("Semicolon", <<59>>, 6)>>

\* recursion without an end (through the parameter: a function that names a
\* global gets an upvalue descriptor, which run does not step over)
\*     fun r(f) { f(f); }
\*     r(r);
SrcUnbounded ==
  <<Token("Fun", <<102, 117, 110>>, 1), Token("Identifier", <<114>>, 1),
    Token("LeftParen", <<40>>, 1), Token("Identifier", <<102>>, 1),
    Token("RightParen", <<41>>, 1), Token("LeftBrace", <<123>>, 1),
    Token("Identifier", <<102>>, 1), Token("LeftParen", <<40>>, 1),
    Token("Identifier", <<102>>, 1), Token("RightParen", <<41>>, 1),
    Token("Semicolon", <<59>>, 1), Token("RightBrace", <<125>>, 1),
    Token("Identifier", <<114>>, 2), Token("LeftParen", <<40>>, 2),
    Token("Identifier", <<114>>, 2), Token("RightParen", <<41>>, 2),
    Token("Semicolon", <<59>>, 2)>>

\* and, or with a right operand that assigns
\*     var a = 1;
\*     print false and (a = 2);
\*     print nil and (a = 2);
\*     print true or (a = 3);
\*     print a;
SrcShortCircuit ==
  <<Token("Var", <<118, 97, 114>>, 1), Token("Identifier", <<97>>, 1),
    Token("Equal", <<61>>, 1), Token("Number", <<49>>, 1),
    Token("Semicolon", <<59>>, 1), Token("Print", <<112, 114, 105, 110, 116>>, 2),
    Token("False", <<102, 97, 108, 115, 101>>, 2), Token("And", <<97, 110, 100>>, 2),
    Token("LeftParen", <<40>>, 2), Token("Identifier", <<97>>, 2),
    Token("Equal", <<61>>, 2), Token("Number", <<50>>, 2),
    Token("RightParen", <<41>>, 2), Token("Semicolon", <<59>>, 2),
    Token("Print", <<112, 114, 105, 110, 116>>, 3), Token("Nil", <<110, 105, 108>>, 3),
    Token("And", <<97, 110, 100>>, 3), Token("LeftParen", <<40>>, 3),
    Token("Identifier", <<97>>, 3), Token("Equal", <<61>>, 3),
    Token("Number", <<50>>, 3), Token("RightParen", <<41>>, 3),
    Token("Semicolon", <<59>>, 3), Token("Print", <<112, 114, 105, 110, 116>>, 4),
    Token("True", <<116, 114, 117, 101>>, 4), Token("Or", <<111, 114>>, 4),
    Token("LeftParen", <<40>>, 4), Token("Identifier", <<97>>, 4),
    Token("Equal", <<61>>, 4), Token("Number", <<51>>, 4),
    Token("RightParen", <<41>>, 4), Token("Semicolon", <<59>>, 4),
    Token("Print", <<112, 114, 105, 110, 116>>, 5), Token("Identifier", <<97>>, 5),
    Token("Semicolon", <<59>>, 5)>>

\* a character no token starts with: scan_token returns an Error token for it
\*     print @;
SrcLexError ==
  <<Token("Print", <<112, 114, 105, 110, 116>>, 1), Token("Error", <<>>, 1),
    Token("Semicolon", <<59>>, 1)>>

\* more constants than a one-byte index addresses: the literal 7 is constant
\* number ManyConstants + 1 of the script
\*     if (false) { 0; 0; ... 0; }
\*     print 7;
ManyConstants == 256

SrcManyConstants ==
  <<Token("If", <<105, 102>>, 1), Token("LeftParen", <<40>>, 1),
    Token("False", <<102, 97, 108, 115, 101>>, 1), Token("RightParen", <<41>>, 1),
    Token("LeftBrace", <<123>>, 1)>>
  \o [i \in 1..(2 * ManyConstants) |->
        IF i % 2 = 1 THEN Token("Number", <<48>>, 1) ELSE Token("Semicolon", <<59>>, 1)]
  \o <<Token("RightBrace", <<125>>, 1), Token("Print", <<112, 114, 105, 110, 116>>, 2),
       Token("Number", <<55>>, 2), Token("Semicolon", <<59>>, 2)>>

\* one erroneous statement (a number where ; is expected) followed by a
\* valid one
\*     print 1 2;
\*     print 3;
SrcStrayToken ==
  <<Token("Print", <<112, 114, 105, 110, 116>>, 1), Token("Number", <<49>>, 1),
    Token("Number", <<50>>, 1), Token("Semicolon", <<59>>, 1),
    Token("Print", <<112, 114, 105, 110, 116>>, 2), Token("Number", <<51>>, 2),
    Token("Semicolon", <<59>>, 2)>>

\* eight global variables: eight strings in the table of interned strings and
\* eight entries in the table of globals
\*     var a;
\*     var b;
\*     var c;
\*     var d;
\*     var e;
\*     var f;
\*     var g;
\*     var h;
SrcEightGlobals ==
  <<Token("Var", <<118, 97, 114>>, 1), Token("Identifier", <<97>>, 1),
    Token("Semicolon", <<59>>, 1), Token("Var", <<118, 97, 114>>, 2),
    Token("Identifier", <<98>>, 2), Token("Semicolon", <<59>>, 2),
    Token("Var", <<118, 97, 114>>, 3), Token("Identifier", <<99>>, 3),
    Token("Semicolon", <<59>>, 3), Token("Var", <<118, 97, 114>>, 4),
    Token("Identifier", <<100>>, 4), Token("Semicolon", <<59>>, 4),
    Token("Var", <<118, 97, 114>>, 5), Token("Identifier", <<101>>, 5),
    Token("Semicolon", <<59>>, 5), Token("Var", <<118, 97, 114>>, 6),
    Token("Identifier", <<102>>, 6), Token("Semicolon", <<59>>, 6),
    Token("Var", <<118, 97, 114>>, 7), Token("Identifier", <<103>>, 7),
    Token("Semicolon", <<59>>, 7), Token("Var", <<118, 97, 114>>, 8),
    Token("Identifier", <<104>>, 8), Token("Semicolon", <<59>>, 8)>>

\* a global declared and read after ManyConstants constants: its name is
\* constant number ManyConstants + 1 of the script
\*     if (false) { 0; 0; ... 0; }
\*     var a;
\*     print a;
SrcLateGlobal ==
  <<Token("If", <<105, 102>>, 1), Token("LeftParen", <<40>>, 1),
    Token("False", <<102, 97, 108, 115, 101>>, 1), Token("RightParen", <<41>>, 1),
    Token("LeftBrace", <<123>>, 1)>>
  \o [i \in 1..(2 * ManyConstants) |->
        IF i % 2 = 1 THEN Token("Number", <<48>>, 1) ELSE Token("Semicolon", <<59>>, 1)]
  \o <<Token("RightBrace", <<125>>, 1), Token("Var", <<118, 97, 114>>, 2),
       Token("Identifier", <<97>>, 2), Token("Semicolon", <<59>>, 2),
       Token("Print", <<112, 114, 105, 110, 116>>, 3),
       Token("Identifier", <<97>>, 3), Token("Semicolon", <<59>>, 3)>>

\* a function that names a global variable
\*     var g = 1;
\*     fun f() { return g; }
\*     print f();
SrcGlobalInFunction ==
  <<Token("Var", <<118, 97, 114>>, 1), Token("Identifier", <<103>>, 1),
    Token("Equal", <<61>>, 1), Token("Number", <<49>>, 1),
    Token("Semicolon", <<59>>, 1), Token("Fun", <<102, 117, 110>>, 2),
    Token("Identifier", <<102>>, 2), Token("LeftParen", <<40>>, 2),
    Token("RightParen", <<41>>, 2), Token("LeftBrace", <<123>>, 2),
    Token("Return", <<114, 101, 116, 117, 114, 110>>, 2),
    Token("Identifier", <<103>>, 2), Token("Semicolon", <<59>>, 2),
    Token("RightBrace", <<125>>, 2), Token("Print", <<112, 114, 105, 110, 116>>, 3),
    Token("Identifier", <<102>>, 3), Token("LeftParen", <<40>>, 3),
    Token("RightParen", <<41>>, 3), Token("Semicolon", <<59>>, 3)>>

\* the same name declared in two sibling blocks
\*     { var a; }
\*     { var a; }
\*     print 1;
SrcSiblingBlocks ==
  <<Token("LeftBrace", <<123>>, 1), Token("Var", <<118, 97, 114>>, 1),
    Token("Identifier", <<97>>, 1), Token("Semicolon", <<59>>, 1),
    Token("RightBrace", <<125>>, 1), Token("LeftBrace", <<123>>, 2),
    Token("Var", <<118, 97, 114>>, 2), Token("Identifier", <<97>>, 2),
    Token("Semicolon", <<59>>, 2), Token("RightBrace", <<125>>, 2),
    Token("Print", <<112, 114, 105, 110, 116>>, 3), Token("Number", <<49>>, 3),
    Token("Semicolon", <<59>>, 3)>>

Sources ==
  <<SrcArith, SrcGlobals, SrcSetUndefined, SrcGetUndefined, SrcCounter, SrcArity,
    SrcRecursion, SrcAddBool, SrcAddString, SrcLessBool, SrcBlocks, SrcNested,
    SrcIntern, SrcLongString, SrcConcat, SrcFor, SrcWhile, SrcIf, SrcSyntaxError,
    SrcManyConstants, SrcEquality, SrcUnbounded, SrcShortCircuit, SrcLexError,
    SrcStrayToken, SrcEightGlobals, SrcLateGlobal, SrcGlobalInFunction,
    SrcSiblingBlocks>>

\* interpret is called at most MaxInterprets times on the VM
MaxInterprets == 2

\* ------------------------------------------------------------------------
\* Actions
\* ------------------------------------------------------------------------
\* VM::interpret called with Sources[s], up to the first fetch of run
Interpret ==
  /\ mode = "idle"
  /\ Len(sources) < MaxInterprets
  /\ \E s \in DOMAIN Sources :
       /\ Set(interpret(VM, Sources[s], ub, checked))
       /\ sources' = Append(sources, s)
  /\ UNCHANGED <<checked, ub, scanner, tokens, scan_mode>>
  /\ UNCHANGED unit_vars

\* run is about to fetch the opcode op
Fetches(op) ==
  mode = "running" /\ CanReadByte(current_frame) /\ ReadByte(current_frame) = op

\* the VM after READ_BYTE has fetched the opcode
Fetched == Advance(VM, 1)

Step(vm) ==
  /\ Set(vm)
  /\ UNCHANGED <<checked, ub, sources, scanner, tokens, scan_mode>>
  /\ UNCHANGED unit_vars

Return == Fetches(OpCode.Return) /\ Step(return_op(Fetched))

Negate == Fetches(OpCode.Negate) /\ Step(ExecNegate(Fetched))

Add == Fetches(OpCode.Add) /\ Step(ExecAdd(Fetched, ub))

\* the arms that are BINARY_OP alone
BinaryOps ==
  (OpCode.Multiply :> "*") @@ (OpCode.Subtract :> "-") @@ (OpCode.Divide :> "/")
  @@ (OpCode.Greater :> ">") @@ (OpCode.Less :> "<")

Binary ==
  \E op \in DOMAIN BinaryOps : Fetches(op) /\ Step(BINARY_OP(Fetched, BinaryOps[op]))

Equal == Fetches(OpCode.Equal) /\ Step(ExecEqual(Fetched))

Constant == Fetches(OpCode.Constant) /\ Step(ExecConstant(Fetched))

ConstantLong == Fetches(OpCode.ConstantLong) /\ Step(ExecConstantLong(Fetched))

False == Fetches(OpCode.False) /\ Step(push(Fetched, VBoolean(FALSE)))

True == Fetches(OpCode.True) /\ Step(push(Fetched, VBoolean(TRUE)))

Nil == Fetches(OpCode.Nil) /\ Step(push(Fetched, VMissing))

Not == Fetches(OpCode.Not) /\ Step(ExecNot(Fetched))

DefineGlobalVariable ==
  Fetches(OpCode.DefineGlobalVariable) /\ Step(ExecDefineGlobal(Fetched))

Pop == Fetches(OpCode.Pop) /\ Step(pop(Fetched))

Closure == Fetches(OpCode.Closure) /\ Step(ExecClosure(Fetched))

Call == Fetches(OpCode.Call) /\ Step(ExecCall(Fetched, checked))

JumpIfFalse == Fetches(OpCode.JumpIfFalse) /\ Step(ExecJumpIfFalse(Fetched, checked))

Jump == Fetches(OpCode.Jump) /\ Step(update_offset(Fetched, TRUE, checked))

Loop == Fetches(OpCode.Loop) /\ Step(update_offset(Fetched, FALSE, checked))

GetLocalVariable == Fetches(OpCode.GetLocalVariable) /\ Step(ExecGetLocal(Fetched))

SetLocalVariable == Fetches(OpCode.SetLocalVariable) /\ Step(ExecSetLocal(Fetched))

GetGlobalVariable == Fetches(OpCode.GetGlobalVariable) /\ Step(ExecGetGlobal(Fetched))

SetGlobalVariable == Fetches(OpCode.SetGlobalVariable) /\ Step(ExecSetGlobal(Fetched))

PrintValue == Fetches(OpCode.Print_) /\ Step(ExecPrint(Fetched))

\* the opcodes that have an arm of their own in run
Handled == OpCode.Return .. OpCode.Closure

\* the arm _ of run, and READ_BYTE's unwrap when ip is past the code
Default ==
  /\ mode = "running"
  /\ IF ~CanReadByte(current_frame) THEN Step(Panicked(VM))
     ELSE /\ ReadByte(current_frame) \notin Handled
          /\ Step(ExecDefault(Fetched))

Next ==
  \/ Interpret
  \/ Return
  \/ Negate
  \/ Add
  \/ Binary
  \/ Equal
  \/ Constant
  \/ ConstantLong
  \/ False
  \/ True
  \/ Nil
  \/ Not
  \/ DefineGlobalVariable
  \/ Pop
  \/ Closure
  \/ Call
  \/ JumpIfFalse
  \/ Jump
  \/ Loop
  \/ GetLocalVariable
  \/ SetLocalVariable
  \/ GetGlobalVariable
  \/ SetGlobalVariable
  \/ PrintValue
  \/ Default

Spec == Init /\ [][Next]_vars


\* ------------------------------------------------------------------------
\* The scanner on its own: Compiler::compile refreshes the scanner with a
\* source (total_size is the length of the source in bytes), and scan_token
\* is called again and again.  The sources are every text of up to MaxTextLen
\* characters of ScanAlphabet, and the texts below.
\* ------------------------------------------------------------------------
\* space, newline, quote, dot, slash, 1, =, @, o, r, e with an acute accent
ScanAlphabet == {32, 10, 34, 46, 47, 49, 61, 64, 111, 114, 233}

MaxTextLen == 3

\*     and class else false for fun if nil or print return super this true var while
TextKeywords ==
  <<97, 110, 100, 32, 99, 108, 97, 115, 115, 32, 101, 108, 115, 101, 32, 102, 97, 108,
    115, 101, 32, 102, 111, 114, 32, 102, 117, 110, 32, 105, 102, 32, 110, 105, 108,
    32, 111, 114, 32, 112, 114, 105, 110, 116, 32, 114, 101, 116, 117, 114, 110, 32,
    115, 117, 112, 101, 114, 32, 116, 104, 105, 115, 32, 116, 114, 117, 101, 32, 118,
    97, 114, 32, 119, 104, 105, 108, 101>>

\*     format printer variable iffy f t fa tr an orchid
TextPrefixes ==
  <<102, 111, 114, 109, 97, 116, 32, 112, 114, 105, 110, 116, 101, 114, 32, 118, 97,
    114, 105, 97, 98, 108, 101, 32, 105, 102, 102, 121, 32, 102, 32, 116, 32, 102, 97,
    32, 116, 114, 32, 97, 110, 32, 111, 114, 99, 104, 105, 100>>

\*     (){};,.-+*! != = == < <= > >=
TextPunctuation ==
  <<40, 41, 123, 125, 59, 44, 46, 45, 43, 42, 33, 32, 33, 61, 32, 61, 32, 61, 61, 32,
    60, 32, 60, 61, 32, 62, 32, 62, 61>>

\*     12.5 7.x 3.
TextNumbers ==
  <<49, 50, 46, 53, 32, 55, 46, 120, 32, 51, 46>>

\*     "a\nb" c\n"d
TextString ==
  <<34, 97, 10, 98, 34, 32, 99, 10, 34, 100>>

\*     x // y\n_z1 // w
TextComment ==
  <<120, 32, 47, 47, 32, 121, 10, 95, 122, 49, 32, 47, 47, 32, 119>>

\*     1 / 2
TextDivision ==
  <<49, 32, 47, 32, 50>>

\*     var name="pawan"
TextValid ==
  <<118, 97, 114, 32, 110, 97, 109, 101, 61, 34, 112, 97, 119, 97, 110, 34>>

\*     name=="pawan""
TextInvalid ==
  <<110, 97, 109, 101, 61, 61, 34, 112, 97, 119, 97, 110, 34, 34>>
Texts ==
  UNION {[1..n -> ScanAlphabet] : n \in 0..MaxTextLen}
    \cup {TextKeywords, TextPrefixes, TextPunctuation, TextNumbers, TextString,
          TextComment, TextDivision, TextValid, TextInvalid}

\* the VM is constructed and left alone; the scanner has been refreshed
ScanInit ==
  /\ stack = VMInit.stack
  /\ stack_top = VMInit.stack_top
  /\ table = VMInit.table
  /\ globals = VMInit.globals
  /\ call_frames = VMInit.call_frames
  /\ frame_count = VMInit.frame_count
  /\ current_frame = VMInit.current_frame
  /\ heap = VMInit.heap
  /\ out = VMInit.out
  /\ mode = VMInit.mode
  /\ result = VMInit.result
  /\ checked = TRUE
  /\ ub = "intact"
  /\ sources = <<>>
  /\ \E source \in Texts :
       scanner = refresh(ScannerInit(0, 0, source), 0, Utf8Len(source), source)
  /\ tokens = <<>>
  /\ scan_mode = "ready"
  /\ UnitInit

\* Eof has been returned twice in a row
EofTwice ==
  /\ Len(tokens) >= 2
  /\ tokens[Len(tokens)].token_type = "Eof"
  /\ tokens[Len(tokens) - 1].token_type = "Eof"

\* one call of scan_token: it returns a token, panics, or never returns
ScanToken ==
  /\ scan_mode = "ready"
  /\ ~EofTwice
  /\ LET scanned == scanner_scan_token(scanner)
     IN /\ scanner' = scanned.c
        /\ scan_mode' = IF scanned.c.abort THEN "panic"
                        ELSE IF scanned.c.hung THEN "hung" ELSE "ready"
        /\ tokens' = IF scanned.c.abort \/ scanned.c.hung THEN tokens
                     ELSE Append(tokens, scanned.r)
  /\ UNCHANGED <<stack, stack_top, table, globals, call_frames, frame_count,
                 current_frame, heap, out, mode, result, checked, ub, sources>>
  /\ UNCHANGED unit_vars

ScanNext == ScanToken

ScanSpec == ScanInit /\ [][ScanNext]_vars


\* ------------------------------------------------------------------------
\* A Table used on its own, as the tests of hash_map.rs use it: keys made
\* from a text by create_fat_ptr, values of type bool, and insert, delete,
\* get and get_mut called in any order.
\* ------------------------------------------------------------------------
\* no VM is running and no source is being scanned
IdleVM ==
  /\ stack = VMInit.stack
  /\ stack_top = VMInit.stack_top
  /\ table = VMInit.table
  /\ globals = VMInit.globals
  /\ call_frames = VMInit.call_frames
  /\ frame_count = VMInit.frame_count
  /\ current_frame = VMInit.current_frame
  /\ heap = VMInit.heap
  /\ out = VMInit.out
  /\ mode = VMInit.mode
  /\ result = VMInit.result
  /\ checked = TRUE
  /\ ub = "intact"
  /\ sources = <<>>

IdleScanner ==
  /\ scanner = ScannerInit(0, 0, <<>>)
  /\ tokens = <<>>
  /\ scan_mode = "ready"

\* the texts of the keys: one, two, three.  one and three fall into the same
\* bucket of a table of capacity 3, two and three of a table of capacity 5.
KeyTexts == <<<<111, 110, 101>>, <<116, 119, 111>>, <<116, 104, 114, 101, 101>>>>

\* the texts given to hash on their own: "", one, e with an acute accent
HashTexts == {<<>>, KeyTexts[1], <<233>>, <<111, 233>>}

\* create_fat_ptr: each key has an allocation of its own
create_fat_ptr(k) == FatPointer(k, Len(KeyTexts[k]), hash(KeyTexts[k]))

Keys == [k \in DOMAIN KeyTexts |-> create_fat_ptr(k)]

\* the capacities given to Table::init, and the size (the count of inserts
\* the table keeps) up to which insert is called
InitCapacities == {1, 2}
MaxSize == 5

\* Option<T>: None, or Some(value)
None == [tag |-> "None"]
Some(value) == [tag |-> "Some", value |-> value]

TableInitial ==
  /\ IdleVM
  /\ IdleScanner
  /\ \E capacity \in InitCapacities : map = TableInit(capacity)
  /\ bindings = [k \in DOMAIN KeyTexts |-> None]
  /\ chunk = ChunkInit
  /\ pending = <<>>
  /\ returned = [op |-> "none", aborted |-> FALSE]
  /\ compiler = NoCompiler

\* map.insert(key, value)
MapInsert ==
  /\ ~returned.aborted
  /\ map.size < MaxSize
  /\ \E k \in DOMAIN KeyTexts, value \in BOOLEAN :
       /\ map' = insert(map, Keys[k], value)
       /\ returned' = [op |-> "insert", key |-> k, aborted |-> FALSE,
                       result |-> insert_result(map, Keys[k])]
       /\ bindings' = [bindings EXCEPT ![k] = Some(value)]
  /\ UNCHANGED <<vm_vars, scan_vars, compiler, chunk, pending>>

\* map.delete(key)
MapDelete ==
  /\ ~returned.aborted
  /\ \E k \in DOMAIN KeyTexts :
       /\ map' = delete(map, Keys[k])
       /\ returned' = [op |-> "delete", key |-> k, aborted |-> FALSE,
                       result |-> delete_result(map, Keys[k])]
       /\ bindings' = [bindings EXCEPT ![k] = None]
  /\ UNCHANGED <<vm_vars, scan_vars, compiler, chunk, pending>>

\* map.get(key): find_entry(..).unwrap() aborts the process on None
MapGet ==
  /\ ~returned.aborted
  /\ \E k \in DOMAIN KeyTexts :
       returned' = IF get_panics(map, Keys[k])
                   THEN [op |-> "get", key |-> k, aborted |-> TRUE]
                   ELSE [op |-> "get", key |-> k, aborted |-> FALSE,
                         result |-> Some(get(map, Keys[k]))]
  /\ UNCHANGED <<vm_vars, scan_vars, compiler, map, bindings, chunk, pending>>

\* a write through map.get_mut(key).unwrap()
MapGetMut ==
  /\ ~returned.aborted
  /\ \E k \in DOMAIN KeyTexts, value \in BOOLEAN :
       IF get_panics(map, Keys[k])
       THEN /\ returned' = [op |-> "get_mut", key |-> k, aborted |-> TRUE]
            /\ UNCHANGED <<map, bindings>>
       ELSE /\ map' = [map EXCEPT
                         !.entries[find_entry_index(map, Keys[k])].value =
                            value]
            /\ returned' = [op |-> "get_mut", key |-> k, aborted |-> FALSE,
                            result |-> Some(value)]
            /\ bindings' = [bindings EXCEPT ![k] = Some(value)]
  /\ UNCHANGED <<vm_vars, scan_vars, compiler, chunk, pending>>

\* hash(text) called on its own
Hash ==
  /\ ~returned.aborted
  /\ \E text \in HashTexts :
       returned' = IF hash_panics(text)
                   THEN [op |-> "hash", text |-> text, aborted |-> TRUE]
                   ELSE [op |-> "hash", text |-> text, aborted |-> FALSE,
                         result |-> hash(text)]
  /\ UNCHANGED <<vm_vars, scan_vars, compiler, map, bindings, chunk, pending>>

TableNext == MapInsert \/ MapDelete \/ MapGet \/ MapGetMut \/ Hash

TableSpec == TableInitial /\ [][TableNext]_vars


\* ------------------------------------------------------------------------
\* The functions with which the compiler writes its chunk, each called on its
\* own: write_constant, emit_jump, patch_jump and emit_loop, between
\* statements that are compiled as a whole.  Every call writes at the line
\* after the last one written, and the source has at most MaxLine lines.
\* ------------------------------------------------------------------------
\* the numbers of constants the script has when the calls start, the number
\* of statements of a long loop body, and the last line of the source
InitConstants == {0, 254, 255, 256}
LongBody == 32766
MaxLine == 3

\* the compiler writing the chunk ch, its previous token on the given line
Writing(ch, line) ==
  SetChunk([CompilerInit(<<>>, VMInit.table, VMInit.heap, "intact", TRUE)
              EXCEPT !.previous = Token("None", <<>>, line)], ch)

\* the chunk after n statements 0; on line 1, for n <= 256: number writes the
\* constant with write_constant (Constant and the one-byte index, as every
\* index is at most 255), expression_statement the Pop
LiteralStatements(n) ==
  [code |-> [j \in 1..(3 * n) |->
               CASE j % 3 = 1 -> OpCode.Constant
                 [] j % 3 = 2 -> (j - 2) \div 3
                 [] OTHER -> OpCode.Pop],
   constants |-> [i \in 1..n |-> VNumber(0)],
   lines |-> [j \in 1..(3 * n) |-> 1]]

\* the chunk after n more statements nil; on the given line: literal writes
\* Nil, expression_statement the Pop
NilStatements(ch, n, line) ==
  [ch EXCEPT !.code = @ \o [i \in 1..(2 * n) |->
                              IF i % 2 = 1 THEN OpCode.Nil ELSE OpCode.Pop],
             !.lines = @ \o [i \in 1..(2 * n) |-> line]]

\* the chunk inside while (true) { nil; nil; ... with LongBody statements in
\* the block, all on line 1: loop_start is 0 and the exit jump's operand is
\* at offset 2
LongLoopOpened ==
  emit_opcode(emit_jump(emit_opcode(Writing(ChunkInit, 1), OpCode.True),
                        OpCode.JumpIfFalse).c, OpCode.Pop)

LongLoopChunk == NilStatements(current_chunk(LongLoopOpened), LongBody, 1)

LoopStart(at) == [kind |-> "loop", at |-> at]
JumpOperand(at) == [kind |-> "jump", at |-> at]

\* the line of the next token
NextLine == IF chunk.lines = <<>> THEN 1 ELSE chunk.lines[Len(chunk.lines)] + 1

EmitInitial ==
  /\ IdleVM
  /\ IdleScanner
  /\ map = TableInit(1)
  /\ bindings = <<>>
  /\ returned = [op |-> "none", aborted |-> FALSE]
  /\ compiler = NoCompiler
  /\ \/ \E n \in InitConstants :
          /\ chunk = LiteralStatements(n)
          /\ pending = <<>>
     \/ /\ chunk = LongLoopChunk
        /\ pending = <<LoopStart(0), JumpOperand(2)>>

\* chunk.write_constant(value, line)
WriteConstant ==
  /\ NextLine <= MaxLine
  /\ \E value \in {VNumber(7), VBoolean(TRUE)} :
       /\ chunk' = write_constant(chunk, value, NextLine)
       /\ returned' = [op |-> "write_constant", value |-> value,
                       at |-> Len(chunk.code), aborted |-> FALSE,
                       result |-> ConstantCount(add_constant(chunk, value))]
  /\ UNCHANGED <<vm_vars, scan_vars, compiler, map, bindings, pending>>

\* a statement nil; in between
NilStatement ==
  /\ NextLine <= MaxLine
  /\ chunk' = NilStatements(chunk, 1, NextLine)
  /\ returned' = [op |-> "statement", aborted |-> FALSE]
  /\ UNCHANGED <<vm_vars, scan_vars, compiler, map, bindings, pending>>

\* let loop_start = self.current_chunk().code.len() of while_stmt and for_stmt
RecordLoopStart ==
  /\ NextLine <= MaxLine
  /\ Len(pending) < 2
  /\ pending' = Append(pending, LoopStart(Len(chunk.code)))
  /\ returned' = [op |-> "loop_start", aborted |-> FALSE]
  /\ UNCHANGED <<vm_vars, scan_vars, compiler, map, bindings, chunk>>

\* emit_jump(instruction): the offset it returns is kept until it is patched
EmitJump ==
  /\ NextLine <= MaxLine
  /\ Len(pending) < 2
  /\ \E instruction \in {OpCode.JumpIfFalse, OpCode.Jump} :
       LET emitted == emit_jump(Writing(chunk, NextLine), instruction)
       IN /\ chunk' = current_chunk(emitted.c)
          /\ pending' = Append(pending, JumpOperand(emitted.r))
          /\ returned' = [op |-> "emit_jump", aborted |-> FALSE,
                          result |-> emitted.r]
  /\ UNCHANGED <<vm_vars, scan_vars, compiler, map, bindings>>

\* the place in pending of the last entry of the kind, or 0
LastOf(kind) ==
  LET places == {i \in DOMAIN pending : pending[i].kind = kind}
  IN IF places = {} THEN 0 ELSE CHOOSE i \in places : \A j \in places : j <= i

Without(i) ==
  [j \in 1..(Len(pending) - 1) |-> IF j < i THEN pending[j] ELSE pending[j + 1]]

\* patch_jump(offset) for the jump emitted last
PatchJump ==
  /\ LastOf("jump") # 0
  /\ LET offset == pending[LastOf("jump")].at
         patched == patch_jump(Writing(chunk, NextLine), offset)
     IN /\ chunk' = current_chunk(patched)
        /\ returned' = [op |-> "patch_jump", offset |-> offset, aborted |-> FALSE,
                        distance |-> Len(chunk.code) - offset - 2,
                        had_error |-> patched.had_error]
  /\ pending' = Without(LastOf("jump"))
  /\ UNCHANGED <<vm_vars, scan_vars, compiler, map, bindings>>

\* emit_loop(loop_start) for the loop start recorded last
EmitLoop ==
  /\ NextLine <= MaxLine
  /\ LastOf("loop") # 0
  /\ LET loop_start == pending[LastOf("loop")].at
         emitted == emit_loop(Writing(chunk, NextLine), loop_start)
     IN /\ chunk' = current_chunk(emitted)
        /\ returned' = [op |-> "emit_loop", loop_start |-> loop_start,
                        at |-> Len(chunk.code), aborted |-> FALSE,
                        distance |-> Len(chunk.code) + 1 - loop_start + 2,
                        had_error |-> emitted.had_error]
  /\ pending' = Without(LastOf("loop"))
  /\ UNCHANGED <<vm_vars, scan_vars, compiler, map, bindings>>

EmitNext ==
  WriteConstant \/ NilStatement \/ RecordLoopStart \/ EmitJump \/ PatchJump
    \/ EmitLoop

EmitSpec == EmitInitial /\ [][EmitNext]_vars


\* ------------------------------------------------------------------------
\* Compiler::compile taken one iteration of its top-level loop at a time, on
\* the token streams the scanner can hand it: every stream of at most
\* MaxTokens tokens of TokenAlphabet, and some sources of the library.
\* ------------------------------------------------------------------------
MaxTokens == 4

\* var, a, ;, {, }, print, 1, fun, (, class, =, and an error token
TokenAlphabet ==
  {Token("Var", <<118, 97, 114>>, 1), Token("Identifier", <<97>>, 1),
   Token("Semicolon", <<59>>, 1), Token("LeftBrace", <<123>>, 1),
   Token("RightBrace", <<125>>, 1), Token("Print", <<112, 114, 105, 110, 116>>, 1),
   Token("Number", <<49>>, 1), Token("Fun", <<102, 117, 110>>, 1),
   Token("LeftParen", <<40>>, 1), Token("Class", <<99, 108, 97, 115, 115>>, 1),
   Token("Equal", <<61>>, 1), Token("Error", <<64>>, 1)}

\* two locals declared in a block inside a block
\*     { { var a; var b; } }
SrcInnerLocals ==
  <<Token("LeftBrace", <<123>>, 1), Token("LeftBrace", <<123>>, 1),
    Token("Var", <<118, 97, 114>>, 1), Token("Identifier", <<97>>, 1),
    Token("Semicolon", <<59>>, 1), Token("Var", <<118, 97, 114>>, 1),
    Token("Identifier", <<98>>, 1), Token("Semicolon", <<59>>, 1),
    Token("RightBrace", <<125>>, 1), Token("RightBrace", <<125>>, 1)>>

TokenStreams ==
  UNION {[1..n -> TokenAlphabet] : n \in 0..MaxTokens}
    \cup {SrcCounter, SrcFor, SrcIf, SrcBlocks, SrcInnerLocals,
        SrcSyntaxError, SrcStrayToken}

\* Compiler::init on a fresh string table
CompileInitial ==
  /\ IdleVM
  /\ IdleScanner
  /\ map = TableInit(1)
  /\ bindings = <<>>
  /\ chunk = ChunkInit
  /\ pending = <<>>
  /\ returned = [op |-> "none", aborted |-> FALSE]
  /\ \E toks \in TokenStreams :
       compiler = CompilerInit(toks, VMInit.table, VMInit.heap, ub, checked)

\* the tokens the compiler has not consumed: the current one, unless it is
\* Eof, and those the scanner has not returned
Remaining(c) ==
  (Len(c.toks) + 1 - c.pos) + (IF check(c, "Eof") THEN 0 ELSE 1)

\* compile, up to its loop: the scanner is refreshed and advance is called
CompileStart ==
  /\ returned.op = "none"
  /\ compiler' = advance(compiler)
  /\ returned' = [op |-> "advance", aborted |-> compiler'.abort]
  /\ UNCHANGED <<vm_vars, scan_vars, map, bindings, chunk, pending>>

\* one iteration of while !match_token(Eof) { declaration() }
Declaration ==
  /\ returned.op \in {"advance", "declaration"}
  /\ ~returned.aborted
  /\ ~check(compiler, "Eof")
  /\ compiler' = Apply("declaration", compiler, FALSE)
  /\ returned' = [op |-> "declaration", aborted |-> compiler'.abort]
  /\ UNCHANGED <<vm_vars, scan_vars, map, bindings, chunk, pending>>

\* match_token(Eof) is true: the loop ends, end_compiler, compile returns
\* had_error
CompileReturn ==
  /\ returned.op \in {"advance", "declaration"}
  /\ ~returned.aborted
  /\ check(compiler, "Eof")
  /\ compiler' = end_compiler(match_token(compiler, "Eof"))
  /\ returned' = [op |-> "compile", aborted |-> FALSE,
                  result |-> compiler'.had_error]
  /\ UNCHANGED <<vm_vars, scan_vars, map, bindings, chunk, pending>>

CompileNext == CompileStart \/ Declaration \/ CompileReturn

\* compile is sequential code: the step that is enabled is taken
CompileSpec == CompileInitial /\ [][CompileNext]_vars /\ WF_vars(CompileNext)


\* ------------------------------------------------------------------------
\* Properties
\* ------------------------------------------------------------------------
\* interpret has been called once, with the source src
Ran(src) == sources = <<CHOOSE i \in DOMAIN Sources : Sources[i] = src>>

\* the bytes a string key points to
Bytes(fp) == read_string(heap, fp.ptr, fp.size)

\* the table t has a binding for the name
HasBinding(t, name) ==
  \E b \in DOMAIN t.entries :
    t.entries[b].kind = "Occupied" /\ Bytes(t.entries[b].key) = Bytes(name)

\* every binding the table t has for the name holds the value
BoundTo(t, name, value) ==
  \A b \in DOMAIN t.entries :
    (t.entries[b].kind = "Occupied" /\ Bytes(t.entries[b].key) = Bytes(name))
      => t.entries[b].value = value

\* run is about to execute SetGlobal with a name operand and a value on the stack
SetGlobalCase ==
  Fetches(OpCode.SetGlobalVariable) /\ CanReadName(Fetched) /\ CanPeek(VM, 0)

\* C1: SetGlobal on a name without a binding in globals halts the VM with
\* RuntimeError and leaves globals without a binding for the name; SetGlobal on
\* a name that is bound replaces its value and the VM runs on.
C1_SetGlobalReplacesOrFails ==
  [][SetGlobalCase =>
       IF HasBinding(globals, ReadName(Fetched))
       THEN /\ mode' = "running"
            /\ HasBinding(globals', ReadName(Fetched))
            /\ BoundTo(globals', ReadName(Fetched), peek(VM, 0))
       ELSE /\ mode' = "idle"
            /\ result' = "RuntimeError"
            /\ ~HasBinding(globals', ReadName(Fetched))]_vars

\* x = 1 on a VM without globals has failed, and no global x exists
C1_Witness ==
  /\ Ran(SrcSetUndefined)
  /\ mode = "idle"
  /\ result = "RuntimeError"
  /\ \A b \in DOMAIN globals.entries : globals.entries[b].kind # "Occupied"
  /\ \E b \in DOMAIN globals.entries : globals.entries[b].kind = "TombStone"

\* C2: GetGlobal of a name without a binding in globals halts the VM with
\* RuntimeError and pushes nothing; it does not abort the process.
C2_GetGlobalAbsentIsRuntimeError ==
  [][(/\ Fetches(OpCode.GetGlobalVariable)
      /\ CanReadName(Fetched)
      /\ ~HasBinding(globals, ReadName(Fetched)))
       => /\ mode' = "idle"
          /\ result' = "RuntimeError"
          /\ stack_top' = stack_top]_vars

\* C3: the counter closure of SrcCounter, called twice, yields 1 and then 2.
C3_CounterYieldsOneThenTwo ==
  (Ran(SrcCounter) /\ mode # "running") => out = <<VNumber(1), VNumber(2)>>

\* the function a callee value runs: a function, or a closure of one
IsCallable(callee) ==
  /\ callee.tag = "Obj"
  /\ \/ callee.obj.otype = "Fun"
     \/ callee.obj.otype = "Closure" /\ callee.obj.inner.otype = "Fun"

FunctionOf(callee) ==
  IF callee.obj.otype = "Fun" THEN callee.obj.fun ELSE callee.obj.inner.fun

\* run is about to execute Call on a function with its operand arg_count
CallCase ==
  /\ Fetches(OpCode.Call)
  /\ CanReadByte(Fetched.current_frame)
  /\ CanPeek(VM, ReadByte(Fetched.current_frame))
  /\ IsCallable(peek(VM, ReadByte(Fetched.current_frame)))

ArgCount == ReadByte(Fetched.current_frame)

Callee == FunctionOf(peek(VM, ArgCount))

\* C4: a Call whose argument count differs from the callee's arity halts the VM
\* with RuntimeError and pushes no call frame.
C4_ArityMismatchIsRuntimeError ==
  [][(CallCase /\ Callee.arity # ArgCount)
       => /\ mode' = "idle"
          /\ result' = "RuntimeError"
          /\ frame_count' = frame_count
          /\ call_frames' = call_frames]_vars

\* C5 (Call): with matching arity the new frame starts at the callee's slot,
\* stack_top - argc - 1, at ip 0, and the caller's frame is stored with its ip
\* right after the Call operand.
CallPushesFrame ==
  (CallCase /\ Callee.arity = ArgCount /\ frame_count \in 1..(FRAMES_MAX - 1))
    => /\ mode' = "running"
       /\ frame_count' = frame_count + 1
       /\ current_frame' = CallFrame(Callee, 0, stack_top - ArgCount - 1)
       /\ call_frames'[frame_count] = current_frame'
       /\ stack'[current_frame'.cf_stack_top] = peek(VM, ArgCount)
       /\ stack_top' = stack_top
       /\ call_frames'[frame_count - 1] = [current_frame EXCEPT !.ip = @ + 2]

\* C5 (Return): below the last frame the stack is cut to the frame's base and the
\* return value pushed there, and the caller's stored frame resumes; the return
\* of the last frame halts the VM with Ok.
ReturnPopsFrame ==
  (Fetches(OpCode.Return) /\ CanPeek(VM, 0))
    => IF frame_count = 1
       THEN mode' = "idle" /\ result' = "Ok" /\ frame_count' = 0
       ELSE /\ mode' = "running"
            /\ frame_count' = frame_count - 1
            /\ stack_top' = current_frame.cf_stack_top + 1
            /\ stack'[current_frame.cf_stack_top] = peek(VM, 0)
            /\ current_frame' = call_frames[frame_count - 2]

\* C5: a matching Call pushes a frame based at the callee's slot, Return replaces
\* the callee and its arguments by the return value and resumes the caller right
\* after its Call operand, and the return of the last frame halts with Ok.
C5_CallAndReturnFrames == [][CallPushesFrame /\ ReturnPopsFrame]_vars

\* r(r, false) has called itself, both calls have returned, and true was printed
C5_Witness ==
  /\ Ran(SrcRecursion)
  /\ mode = "idle"
  /\ result = "Ok"
  /\ out = <<VBoolean(TRUE)>>
  /\ frame_count = 0

BothStrings == is_obj_string(peek(VM, 0)) /\ is_obj_string(peek(VM, 1))

BothNumbers == is_number(peek(VM, 0)) /\ is_number(peek(VM, 1))

\* run is about to execute an arithmetic or comparison instruction on two operands
BinaryCase(op) == Fetches(op) /\ CanPeek(VM, 0) /\ CanPeek(VM, 1)

\* C6: Add, Subtract, Multiply, Divide, Greater and Less on operands that are not
\* both numbers (for Add: nor both strings) halt the VM with RuntimeError; on two
\* numbers they pop two values and push one.
C6_BinaryOperandsChecked ==
  [][\A op \in {OpCode.Add, OpCode.Subtract, OpCode.Multiply, OpCode.Divide,
                OpCode.Greater, OpCode.Less} :
       BinaryCase(op) =>
         IF BothNumbers THEN mode' = "running" /\ stack_top' = stack_top - 1
         ELSE (op = OpCode.Add /\ BothStrings)
              \/ (mode' = "idle" /\ result' = "RuntimeError")]_vars

\* the script is about to execute the first instruction of a top-level statement
AtStatementStart ==
  /\ mode = "running"
  /\ current_frame.function.func_type = "Script"
  /\ CanReadByte(current_frame)
  /\ \/ current_frame.ip = 0
     \/ current_frame.function.chunk.lines[current_frame.ip]
          # current_frame.function.chunk.lines[current_frame.ip + 1]

\* C7: on a fresh VM every top-level statement starts with the stack as the
\* script found it (the script's own slot only): each statement before it has
\* left stack_top where it was.
C7_StackAtStatementBoundaries ==
  (Len(sources) = 1 /\ AtStatementStart) => stack_top = 1

\* C8: in SrcNested, whose only variable is a local of an enclosing open block,
\* the reference to it is a local access: no global is ever read.
C8_EnclosingBlockLocalIsLocal ==
  Ran(SrcNested) => ~Fetches(OpCode.GetGlobalVariable)

\* C9: the intern table holds at most one entry per distinct byte sequence.
C9_OneEntryPerByteSequence ==
  \A i, j \in DOMAIN table.entries :
    (/\ table.entries[i].kind = "Occupied"
     /\ table.entries[j].kind = "Occupied"
     /\ Bytes(table.entries[i].key) = Bytes(table.entries[j].key))
      => i = j

\* a string value whose bytes lie within its allocation
FitsAllocation(v) == is_obj_string(v) /\ v.obj.fp.size <= STRING_ALLOC_SIZE

\* C10: strings with the same bytes compare equal, whether they come from
\* literals or from Add: Equal on two such strings pushes true.
C10_EqualBytesCompareEqual ==
  [][(/\ Fetches(OpCode.Equal)
      /\ CanPeek(VM, 0) /\ CanPeek(VM, 1)
      /\ FitsAllocation(peek(VM, 0)) /\ FitsAllocation(peek(VM, 1))
      /\ Bytes(peek(VM, 0).obj.fp) = Bytes(peek(VM, 1).obj.fp))
       => stack'[stack_top - 2] = VBoolean(TRUE)]_vars


\* the number that is not equal to itself
IsNaN(v) == v.tag = "Number" /\ v.n = 0 /\ v.d = 0

\* C11: Equal pushes true when its two operands are the same value other than
\* a NaN number, a function or a closure compared with itself included, and
\* pushes false when the operands differ in tag.
C11_EqualComparesTagAndContents ==
  [][(Fetches(OpCode.Equal) /\ CanPeek(VM, 0) /\ CanPeek(VM, 1)) =>
       /\ (peek(VM, 0) = peek(VM, 1) /\ ~IsNaN(peek(VM, 0)))
            => stack'[stack_top - 2] = VBoolean(TRUE)
       /\ peek(VM, 0).tag # peek(VM, 1).tag
            => stack'[stack_top - 2] = VBoolean(FALSE)]_vars

\* C12: when run fetches a byte that is not an opcode with an arm of its own,
\* the VM halts with the outcome RuntimeError, never with Ok.
C12_UnknownOpcodeIsRuntimeError ==
  [][(/\ mode = "running"
      /\ CanReadByte(current_frame)
      /\ ReadByte(current_frame) \notin Handled)
       => (mode' = "idle" /\ result' = "RuntimeError")]_vars


\* C13: a program that needs more value-stack slots than STACK_MAX (SrcUnbounded
\* recurses without an end) ends with the VM halted and the outcome
\* RuntimeError.
C13_OverflowIsRuntimeError ==
  (Ran(SrcUnbounded) /\ mode # "running")
    => (mode = "idle" /\ result = "RuntimeError")


\* the source interpret is called with in this step
Interpreted == Sources[sources'[Len(sources')]]

\* compile, on the VM's string table, reports an error for the tokens
HadError(toks) == compile(CompilerInit(toks, table, heap, ub, checked)).c.had_error

\* C14: when compile reports an error for the source, interpret returns
\* CompileError and run does not start: stack, stack_top, the call frames,
\* frame_count and globals are as before the call, and nothing is printed.
C14_CompileErrorSkipsRun ==
  [][(Len(sources') = Len(sources) + 1 /\ HadError(Interpreted)) =>
       /\ mode' = "idle"
       /\ result' = "CompileError"
       /\ UNCHANGED <<stack, stack_top, call_frames, frame_count, globals, out>>]_vars

\* print @; was given to a VM that had run SrcGlobals: CompileError, and the
\* globals and the stack of the first run are still there
C14_Witness ==
  /\ Len(sources) = 2
  /\ Sources[sources[1]] = SrcGlobals
  /\ Sources[sources[2]] = SrcLexError
  /\ mode = "idle"
  /\ result = "CompileError"
  /\ \E b \in DOMAIN globals.entries : globals.entries[b].kind = "Occupied"
  /\ stack_top = 1


\* C15: in SrcShortCircuit the right operands of false and .., nil and ..,
\* true or .. assign to a.  They are not executed: a keeps the value 1, each
\* print finds exactly one value above the script's slot, which is the left
\* operand, and the run ends with Ok.
C15_ShortCircuitSkipsRightOperand ==
  Ran(SrcShortCircuit) =>
    /\ mode # "panic"
    /\ \A b \in DOMAIN globals.entries :
         globals.entries[b].kind = "Occupied" => globals.entries[b].value = VNumber(1)
    /\ Fetches(OpCode.Print_) => stack_top = 2
    /\ \A i \in DOMAIN out :
         out[i] = <<VBoolean(FALSE), VMissing, VBoolean(TRUE), VNumber(1)>>[i]
    /\ mode = "idle" => (result = "Ok" /\ Len(out) = 4)

\* SrcShortCircuit has run to its end and printed the three left operands and a
C15_Witness ==
  /\ Ran(SrcShortCircuit)
  /\ mode = "idle"
  /\ result = "Ok"
  /\ out = <<VBoolean(FALSE), VMissing, VBoolean(TRUE), VNumber(1)>>


\* ------------------------------------------------------------------------
\* Properties of the scanner (ScanSpec)
\* ------------------------------------------------------------------------
\* the token returned last
LastToken == tokens[Len(tokens)]

\* C16: a call of scan_token returns (it does not go round for ever, also not on
\* a / that starts no comment), and once Eof has been returned a further call
\* returns Eof again and leaves the position and the line as they were.
C16_ScanTokenReturns ==
  [][scan_mode = "ready" =>
       /\ scan_mode' # "hung"
       /\ (tokens # <<>> /\ LastToken.token_type = "Eof") =>
            /\ tokens' = Append(tokens, LastToken)
            /\ scanner'.current = scanner.current
            /\ scanner'.line = scanner.line]_vars

\* the 1-based line of the character at position start
LineOf(chars, start) == 1 + Cardinality({i \in 1..start : chars[i] = 10})

\* C17: a token that is neither Eof nor Error lies inside the source, begins
\* where or after every earlier token ends, and carries the line of its first
\* character, a string literal over several lines included.
C17_TokenPositions ==
  \A i \in DOMAIN tokens :
    tokens[i].token_type \notin {"Eof", "Error"} =>
      /\ tokens[i].length > 0
      /\ tokens[i].start + tokens[i].length <= Len(scanner.chars)
      /\ tokens[i].line = LineOf(scanner.chars, tokens[i].start)
      /\ \A j \in 1..(i - 1) :
           tokens[j].token_type # "Error"
             => tokens[j].start + tokens[j].length <= tokens[i].start

\* the keywords of Lox: token type and lexeme
Keywords ==
  {<<"And", <<97, 110, 100>>>>, <<"Class", <<99, 108, 97, 115, 115>>>>,
   <<"Else", <<101, 108, 115, 101>>>>, <<"False", <<102, 97, 108, 115, 101>>>>,
   <<"For", <<102, 111, 114>>>>, <<"Fun", <<102, 117, 110>>>>,
   <<"If", <<105, 102>>>>, <<"Nil", <<110, 105, 108>>>>, <<"Or", <<111, 114>>>>,
   <<"Print", <<112, 114, 105, 110, 116>>>>,
   <<"Return", <<114, 101, 116, 117, 114, 110>>>>,
   <<"Super", <<115, 117, 112, 101, 114>>>>, <<"This", <<116, 104, 105, 115>>>>,
   <<"True", <<116, 114, 117, 101>>>>, <<"Var", <<118, 97, 114>>>>,
   <<"While", <<119, 104, 105, 108, 101>>>>}

\* the characters of the source a token covers
Lexeme(t) == SubSeq(scanner.chars, t.start + 1, t.start + t.length)

\* the token was scanned as an identifier or a keyword
IsWord(t) ==
  t.token_type = "Identifier" \/ \E kw \in Keywords : t.token_type = kw[1]

\* C18: a token has a keyword type exactly when its whole lexeme is that
\* keyword; a lexeme that only begins with a keyword is an Identifier.
C18_KeywordIffWholeLexeme ==
  \A i \in DOMAIN tokens :
    IsWord(tokens[i]) =>
      \A kw \in Keywords :
        tokens[i].token_type = kw[1] <=> Lexeme(tokens[i]) = kw[2]

RECURSIVE DigitsEnd(_, _)
\* the position after the digits that begin at position p
DigitsEnd(chars, p) ==
  IF p < Len(chars) /\ is_digit(chars[p + 1]) THEN DigitsEnd(chars, p + 1) ELSE p

\* the scanner is at digits that a . follows which no digit follows
BareDotCase ==
  /\ scan_mode = "ready"
  /\ scanner.current < Len(scanner.chars)
  /\ is_digit(scanner.chars[scanner.current + 1])
  /\ LET e == DigitsEnd(scanner.chars, scanner.current)
     IN /\ e < Len(scanner.chars)
        /\ scanner.chars[e + 1] = 46
        /\ (e + 1 = Len(scanner.chars) \/ ~is_digit(scanner.chars[e + 2]))

\* the scanner has returned a Number and is at a . right behind it
DotAfterNumberCase ==
  /\ scan_mode = "ready"
  /\ tokens # <<>>
  /\ LastToken.token_type = "Number"
  /\ scanner.current = LastToken.start + LastToken.length
  /\ scanner.current < Len(scanner.chars)
  /\ scanner.chars[scanner.current + 1] = 46

\* C19: at digits followed by a . that no digit follows (the . may be the last
\* character), scan_token returns a Number of the digits alone and stops at the
\* dot; the call after it returns Dot.
C19_BareDotIsNotConsumed ==
  [][/\ BareDotCase =>
          /\ scan_mode' = "ready"
          /\ tokens' = Append(tokens,
                 [token_type |-> "Number", start |-> scanner.current,
                  length |-> DigitsEnd(scanner.chars, scanner.current)
                               - scanner.current,
                  line |-> scanner.line])
          /\ scanner'.current = DigitsEnd(scanner.chars, scanner.current)
     /\ DotAfterNumberCase =>
          /\ scan_mode' = "ready"
          /\ tokens' = Append(tokens,
                 [token_type |-> "Dot", start |-> scanner.current, length |-> 1,
                  line |-> scanner.line])]_vars

\* the characters tokens are made of, outside string literals
TokenChars ==
  {c \in 0..255 : is_digit(c) \/ is_alpha(c)}
    \cup {32, 13, 9, 10, 40, 41, 123, 125, 59, 44, 46, 45, 43, 47, 42, 33, 61, 60, 62}

\* C20: scan_token does not panic on any source; an Error token for a string
\* that is not closed has the length of "Unterminated string."; a source of
\* token characters without a string literal yields no Error token.
C20_LexicalErrorsAreTokens ==
  /\ scan_mode # "panic"
  /\ \A i \in DOMAIN tokens :
       (tokens[i].token_type = "Error" /\ scanner.chars[tokens[i].start + 1] = 34)
         => tokens[i].length = Len("Unterminated string.")
  /\ (\A p \in DOMAIN scanner.chars : scanner.chars[p] \in TokenChars)
       => \A i \in DOMAIN tokens : tokens[i].token_type # "Error"


\* the diagnostics compile prints for the source
Diagnostics(toks) == compile(CompilerInit(toks, table, heap, ub, checked)).c.errors

\* library sources with exactly one erroneous statement
OneErroneousStatement == {SrcSyntaxError, SrcLexError, SrcStrayToken}

\* C21: a source with one erroneous statement, followed by valid statements or
\* by nothing, makes compile print exactly one diagnostic and return had_error.
C21_OneDiagnosticPerStatement ==
  [][(Len(sources') = Len(sources) + 1 /\ Interpreted \in OneErroneousStatement) =>
       /\ Len(Diagnostics(Interpreted)) = 1
       /\ HadError(Interpreted)]_vars



\* ------------------------------------------------------------------------
\* Properties of the Table on its own (TableSpec)
\* ------------------------------------------------------------------------
\* what get returns for the key k in the table t: Some(value), or "abort" when
\* the unwrap in get panics
GetIn(t, k) ==
  IF get_panics(t, Keys[k]) THEN [tag |-> "abort"] ELSE Some(get(t, Keys[k]))

GetOf(k) == GetIn(map, k)

\* C22: get(k) returns the value last stored for k by insert or through
\* get_mut, for every key that was inserted and not deleted since, whatever
\* was done with other keys in between.
C22_GetReturnsLastStored ==
  ~returned.aborted =>
    \A k \in DOMAIN bindings : bindings[k] # None => GetOf(k) = bindings[k]


\* C23: delete(k) on a table that holds k makes get(k) return None and leaves
\* what get returns for every other key the table holds; get of a key the
\* table does not hold returns None.
C23_DeleteRemovesOnlyTheKey ==
  [][/\ (returned'.op = "delete" /\ bindings[returned'.key] # None) =>
          /\ GetIn(map', returned'.key) = None
          /\ \A k \in DOMAIN bindings \ {returned'.key} :
               bindings[k] # None => GetIn(map', k) = GetIn(map, k)
     /\ (returned'.op = "get" /\ bindings[returned'.key] = None) =>
          /\ ~returned'.aborted
          /\ returned'.result = None]_vars

\* C24: insert returns true exactly when the table held no entry for the key
\* before the call.
C24_InsertReturnsWasNew ==
  [][returned'.op = "insert" =>
       returned'.result = (bindings[returned'.key] = None)]_vars

\* the number of Occupied entries of a table
OccupiedCount(t) == Cardinality({b \in DOMAIN t.entries : t.entries[b].kind = "Occupied"})


\* C25: after every insert the Occupied entries are at most 70% of the
\* capacity, in the table of interned strings and in the table of globals.
C25_LoadFactorIsKept ==
  /\ OccupiedCount(table) * 100 <= LOAD_FACTOR * table.capacity
  /\ OccupiedCount(globals) * 100 <= LOAD_FACTOR * globals.capacity


\* C27: the capacity changes only in insert and only from c to 2c + 1; the
\* growth leaves no TombStone and what get returns for every other key the
\* table holds; from capacity 1 the first insert makes the capacity 3, the
\* second leaves it and the third makes it 7.
C27_GrowthKeepsBindings ==
  [][/\ map'.capacity # map.capacity =>
          /\ returned'.op = "insert"
          /\ map'.capacity = 2 * map.capacity + 1
          /\ \A b \in DOMAIN map'.entries : map'.entries[b].kind # "TombStone"
          /\ \A k \in DOMAIN bindings \ {returned'.key} :
               GetIn(map, k).tag = "Some" => GetIn(map', k) = GetIn(map, k)
     /\ (returned'.op = "insert" /\ map # map') =>
          /\ map.capacity = 1 => map'.capacity = 3
          /\ (map.capacity = 3 /\ map.size = 1) => map'.capacity = 3
          /\ (map.capacity = 3 /\ map.size = 2) => map'.capacity = 7]_vars


RECURSIVE Utf8Bytes(_)
\* the bytes of the UTF-8 encoding of a text of code points below 2048
Utf8Bytes(text) ==
  IF text = <<>> THEN <<>>
  ELSE (IF Head(text) < 128 THEN <<Head(text)>>
        ELSE <<192 + (Head(text) \div 64), 128 + (Head(text) % 64)>>)
       \o Utf8Bytes(Tail(text))

\* C28: hash returns the 32-bit FNV-1a hash of the bytes of its input: from
\* 2166136261, each byte in order is XORed in and the hash multiplied by
\* 16777619 modulo 2^32; hash("one") = 3123124719 = 47655 * 65536 + 6639.
C28_HashIsFnv1a ==
  returned.op = "hash" =>
    /\ ~returned.aborted
    /\ returned.result = HashFrom(FNV_OFFSET, Utf8Bytes(returned.text), 1)
    /\ returned.text = <<111, 110, 101>> => returned.result = <<47655, 6639>>


\* hash of a text of one-byte characters is the FNV-1a hash of its bytes
HashOfAsciiText ==
  (returned.op = "hash" /\ ~returned.aborted) =>
    /\ returned.result = HashFrom(FNV_OFFSET, Utf8Bytes(returned.text), 1)
    /\ returned.text = <<111, 110, 101>> => returned.result = <<47655, 6639>>

\* the buckets of the table t that are Vacant
VacantBuckets(t) == {b \in DOMAIN t.entries : t.entries[b].kind = "Vacant"}

\* the linear probe for the key, started at hash % capacity, meets a Vacant
\* entry or the key's own entry within capacity steps: the loops of
\* find_entry_index and find_entry_with_value return there, and the loop of
\* find_bucket no later
ProbeEnds(t, key) ==
  \E d \in 0..(t.capacity - 1) :
    LET e == t.entries[(HashMod(key.hash, t.capacity) + d) % t.capacity]
    IN e.kind = "Vacant" \/ (e.kind = "Occupied" /\ e.key = key)

\* C37: after any sequence of insert and delete the table has a Vacant entry,
\* and the probe for every key, stored or not, ends.
C37_AVacantEntryRemains ==
  /\ VacantBuckets(map) # {}
  /\ \A k \in DOMAIN Keys : ProbeEnds(map, Keys[k])

\* delete has left a table of capacity 3 with one Vacant entry, a TombStone in
\* the bucket where the probe for the deleted key starts, and another key
\* after it
C37_Witness ==
  /\ returned.op = "delete"
  /\ map.capacity = 3
  /\ Cardinality(VacantBuckets(map)) = 1
  /\ map.entries[HashMod(Keys[returned.key].hash, 3)].kind = "TombStone"
  /\ \E b \in DOMAIN map.entries : map.entries[b].kind = "Occupied"

\* the buckets of the table t that hold an entry for the key
BucketsOf(t, key) ==
  {b \in DOMAIN t.entries : t.entries[b].kind = "Occupied" /\ t.entries[b].key = key}

\* C38: the table holds at most one Occupied entry per key, and none for the
\* key that delete has just been called with.
C38_OneEntryPerKey ==
  /\ \A k \in DOMAIN Keys : Cardinality(BucketsOf(map, Keys[k])) <= 1
  /\ returned.op = "delete" => BucketsOf(map, Keys[returned.key]) = {}



\* ------------------------------------------------------------------------
\* Properties of the chunk writers (EmitSpec)
\* ------------------------------------------------------------------------
\* the 16-bit operand read from the two bytes at the 0-based offset at
Operand16(code, at) == code[at + 1] * 256 + code[at + 2]

\* C26: patch_jump and emit_loop write the distance into the two operand
\* bytes when it fits; for a distance above 65535 they report a compile error
\* and write no operand.
C26_LongJumpIsCompileError ==
  [][/\ returned'.op = "patch_jump" =>
          IF returned'.distance > 65535
          THEN /\ returned'.had_error
               /\ Operand16(chunk'.code, returned'.offset) = 65535
          ELSE Operand16(chunk'.code, returned'.offset) = returned'.distance
     /\ returned'.op = "emit_loop" =>
          IF returned'.distance > 65535
          THEN /\ returned'.had_error
               /\ Len(chunk'.code) = returned'.at + 1
          ELSE Operand16(chunk'.code, returned'.at + 1) = returned'.distance]_vars


\* the index the VM decodes from the operand of the Constant or ConstantLong
\* instruction at the 0-based offset at: READ_CONSTANT reads one byte,
\* READ_CONSTANT_LONG eight bytes
DecodedIndex(code, at) ==
  IF code[at + 1] = OpCode.Constant THEN code[at + 2]
  ELSE FromNeBytes(code, at + 1, 8)

\* C29: write_constant(v) returns an index i such that the operand it emits
\* decodes to i and constants[i] = v; the instruction is Constant with one
\* operand byte for i <= 255 and ConstantLong with eight for i >= 256; the
\* constants added earlier keep their index.
C29_ConstantIsAddressable ==
  [][returned'.op = "write_constant" =>
       LET i == returned'.result
           at == returned'.at
       IN /\ i = Len(chunk.constants)
          /\ chunk'.constants[i + 1] = returned'.value
          /\ SubSeq(chunk'.constants, 1, Len(chunk.constants)) = chunk.constants
          /\ SubSeq(chunk'.code, 1, at) = chunk.code
          /\ chunk'.code[at + 1] = IF i <= 255 THEN OpCode.Constant
                                   ELSE OpCode.ConstantLong
          /\ Len(chunk'.code) = at + (IF i <= 255 THEN 2 ELSE 9)
          /\ DecodedIndex(chunk'.code, at) = i]_vars

\* write_constant has returned the index 256 for the value 7 after it had
\* returned 255: the first ConstantLong follows the last Constant
C29_Witness ==
  /\ returned.op = "write_constant"
  /\ returned.result = 256
  /\ returned.value = VNumber(7)
  /\ chunk.constants[257] = VNumber(7)
  /\ chunk.code[returned.at + 1] = OpCode.ConstantLong
  /\ chunk.code[returned.at - 1] = OpCode.Constant
  /\ chunk.code[returned.at] = 255

\* the ip of a frame that runs the chunk ch after update_offset has read the
\* operand at the 0-based offset at (run has fetched the opcode before it)
Landing(ch, at, add) ==
  update_offset([VMInit EXCEPT !.current_frame =
                   CallFrame([new_function("Script") EXCEPT !.chunk = ch], at, 0)],
                add, TRUE).current_frame.ip

\* C32: a jump patched without a compile error takes the VM to the code
\* position at the time it was patched, and a Loop emitted without a compile
\* error takes it to the recorded loop start: update_offset decodes the
\* distance the compiler computed from the two operand bytes.
C32_JumpsLandWherePatched ==
  [][/\ (returned'.op = "patch_jump" /\ ~returned'.had_error)
          => Landing(chunk', returned'.offset, TRUE) = Len(chunk.code)
     /\ (returned'.op = "emit_loop" /\ ~returned'.had_error)
          => Landing(chunk', returned'.at + 1, FALSE) = returned'.loop_start]_vars



\* ------------------------------------------------------------------------
\* Properties of the VM and the compiler (Spec), continued
\* ------------------------------------------------------------------------
\* the opcodes with the index of a name as their operand
GlobalOps ==
  {OpCode.DefineGlobalVariable, OpCode.SetGlobalVariable, OpCode.GetGlobalVariable}

\* C30: when run fetches DefineGlobal, SetGlobal or GetGlobal, the one byte
\* after the opcode is the index of a string constant, and the string is the
\* name of a variable of the source that is run: the compiler wrote exactly
\* one operand byte, whatever the number of constants before.
C30_GlobalOperandIsOneByte ==
  [][(\E op \in GlobalOps : Fetches(op)) =>
       /\ CanReadName(Fetched)
       /\ ReadName(Fetched).ptr \in DOMAIN heap
       /\ \E i \in DOMAIN Sources[sources[Len(sources)]] :
            LET token == Sources[sources[Len(sources)]][i]
            IN /\ token.type = "Identifier"
               /\ token.lex = read_string(heap, ReadName(Fetched).ptr,
                                          ReadName(Fetched).size)]_vars


\* ------------------------------------------------------------------------
\* Properties of closures, jumps and scopes (Spec)
\* ------------------------------------------------------------------------
\* run is executing the body of a called function of the only source run
InCallOf(src) == Ran(src) /\ frame_count = 2

\* C31: in SrcCounter the body of make declares inc, whose body names make's
\* local x three times; add_up_value records a descriptor at each of them and
\* function emits the three (is_local, index) pairs after the operand of inc's
\* Closure instruction.  Executing that Closure moves ip past the opcode, the
\* operand and the 2 * 3 descriptor bytes, to the opcode that follows them.
C31_ClosureSkipsDescriptors ==
  [][(InCallOf(SrcCounter) /\ Closure)
       => current_frame'.ip = current_frame.ip + 2 + 2 * 3]_vars

\* the compiler after compile has returned for the tokens, on a fresh VM
Compiled(toks) ==
  compile(CompilerInit(toks, VMInit.table, VMInit.heap, ub, checked)).c

LocalsDeclared(toks) == Cardinality({i \in DOMAIN toks : toks[i].type = "Var"})

\* the Pop instructions of a chunk none of whose operands is Pop's number
PopsEmitted(code) == Cardinality({i \in DOMAIN code : code[i] = OpCode.Pop})

\* the sources that are blocks of variable declarations and print statements:
\* every variable is a local and every Pop comes from end_scope
BlocksOfDeclarations == {SrcBlocks, SrcNested}

\* C33: the script compiled from blocks of declarations has one Pop per local
\* declared, and after the last block local_count is 1 again, the value it had
\* before the first begin_scope.
C33_EndScopePopsItsLocals ==
  \A src \in BlocksOfDeclarations :
    (Ran(src) /\ mode = "running" /\ current_frame.ip = 0) =>
      /\ PopsEmitted(current_frame.function.chunk.code) = LocalsDeclared(src)
      /\ current_context(Compiled(src)).local_count = 1

\* C34: in SrcCounter the function inc is declared inside the body of make, at
\* scope depth 1, so it is a local of make: the code of make (which has fewer
\* constants and locals than DefineGlobal's number, so no operand equals it)
\* holds no DefineGlobal instruction.
C34_InnerFunctionIsLocal ==
  InCallOf(SrcCounter) =>
    \A i \in DOMAIN current_frame.function.chunk.code :
      current_frame.function.chunk.code[i] # OpCode.DefineGlobalVariable


\* C35: in SrcGlobalInFunction the body of f names only the global g, which is
\* a local of no enclosing function: no upvalue descriptor is recorded for f,
\* and in the script the operand of f's Closure instruction is followed at
\* once by the DefineGlobal that binds f.
C35_GlobalAddsNoDescriptor ==
  (Ran(SrcGlobalInFunction) /\ Fetches(OpCode.Closure)) =>
    current_frame.function.chunk.code[current_frame.ip + 3]
      = OpCode.DefineGlobalVariable


\* C36: when interpret has returned Ok or RuntimeError no call frame is left
\* (frame_count = 0), and the Return of a script ends the interpret call that
\* compiled it: no frame of an earlier call is there to be resumed.
C36_NoFrameOutlivesInterpret ==
  [][/\ (mode' = "idle" /\ result' \in {"Ok", "RuntimeError"}) => frame_count' = 0
     /\ (Return /\ current_frame.function.func_type = "Script") => mode' = "idle"]_vars


\* C39: in SrcSiblingBlocks the second block declares a again after the scope
\* of the first a has ended: the first a is no longer visible, so compile does
\* not report that the name is already declared in the scope.
C39_ClosedScopeLocalIsGone ==
  [][(Len(sources') = Len(sources) + 1 /\ Interpreted = SrcSiblingBlocks) =>
       \A i \in DOMAIN Diagnostics(Interpreted) :
         Diagnostics(Interpreted)[i]
           # "Already a variable with this name in this scope."]_vars


\* ------------------------------------------------------------------------
\* Properties of compile (CompileSpec)
\* ------------------------------------------------------------------------
\* C40: compile always ends by returning: every call of declaration made by
\* the top-level loop while the current token is not Eof consumes at least one
\* token, and no step of compile stops short of the return (a panic).
C40_CompileTerminates ==
  [][CompileNext =>
       /\ Declaration => Remaining(compiler') < Remaining(compiler)
       /\ ~returned'.aborted]_vars
====
